---- MODULE Spec2Model ----
(***************************************************************************)
(* wg-auto: the reconciliation pipeline between the entity store           *)
(* (WireGuardServer / WireGuardPeer rows), the Celery task queue           *)
(* (onboard_peer, sync_wg_config, inject_peer_live), the on-disk interface *)
(* configuration file and the live interface's peer table.                 *)
(***************************************************************************)
EXTENDS Integers, Sequences, FiniteSets, TLC

\* ---------------------------------------------------------------- bounds
MaxServers == 2
MaxPeers == 2
MaxOps == 3
NumWorkers == 2

ServerIds == 1..MaxServers
PeerIds == 1..MaxPeers
Workers == 1..NumWorkers
\* WireGuardServer.interface: every Server keeps the field's default, "wg0".
Ifaces == {"wg0"}

\* ------------------------------------------------------------ key material
\* wg genkey: the n-th private key the host hands out (all distinct).
GenPrivate(n) == "k" \o ToString(n)

\* wg pubkey: the public key derived from a private key.
PubOf(k) == "pub:" \o k

\* Mutant: the token does not depend on the plaintext.
EncryptLossy(k) == "enc:"

\* CryptoService.encrypt (Fernet): a token that is not the plaintext.
Encrypt(k) == "enc:" \o k

\* Every write generates at most one key pair and every Peer is keyed once;
\* key 0 is the one setup_wg_server generates before it creates the Server.
KeyCap == MaxOps + MaxPeers + MaxServers

PrivKeys == {GenPrivate(n) : n \in 0..KeyCap}

\* CryptoService.decrypt succeeds only on a token produced by encrypt.
CanDecrypt(c) == \E k \in PrivKeys : Encrypt(k) = c

Decrypt(c) == CHOOSE k \in PrivKeys : Encrypt(k) = c

\* str.strip() on the key strings of the model.
Strip(x) == IF x = " " THEN "" ELSE x

\* "not x or x.strip() in ('', '-')"
KeyMissing(x) == x = "" \/ Strip(x) \in {"", "-"}

\* Mutant: the failure branch leaves an empty key field empty.
FillPlaceholderKeepsEmpty(x) == x

\* "if not self.public_key: self.public_key = '-'" (same for the private key)
FillPlaceholder(x) == IF x = "" THEN "-" ELSE x

\* ------------------------------------------------------------------ rows
NoServer ==
  [st |-> "absent", is_active |-> FALSE, public_key |-> "",
   private_key_encrypted |-> "", interface |-> "wg0"]

NoPeer ==
  [st |-> "absent", server |-> 0, public_key |-> "",
   private_key_encrypted |-> "", is_active |-> FALSE]

NoCache == [id |-> 0, row |-> NoServer]

NoConf == [server |-> 0, private_key |-> "", peers |-> {}]

Task(kind, id) == [kind |-> kind, id |-> id, retries |-> 0]

NoLast ==
  [op |-> "none", id |-> 0, created |-> FALSE, keygen |-> "none",
   pre_pub |-> "", pre_priv |-> "", enq |-> <<>>, status |-> "none"]

Idle == [st |-> "idle", peer |-> 0, cmd |-> "none", iface |-> "wg0", key |-> ""]

VARIABLES
  servers,        \* WireGuardServer table: id -> row
  peers,          \* WireGuardPeer table: id -> row (a deleted row keeps its last fields)
  queue,          \* the Celery queue: tasks in enqueue order
  live,           \* interface name -> set of public keys in the live peer table
  conf,           \* interface name -> content of /etc/wireguard/<interface>.conf
  cache_default,  \* cache entry WG_SERVER_CACHE_KEY: a Server snapshot, or none
  cache_config,   \* cache entries server-config:{id}: id -> what to_dict cached, or none
  nkeys,          \* private keys generated so far by wg genkey
  nops,           \* entity mutations performed so far
  invoked,        \* task kind -> entity id -> executions of that task so far
  workers,        \* worker -> what its inject_peer_live execution holds
  last            \* the operation performed by the last step and what it did

vars ==
  <<servers, peers, queue, live, conf, cache_default, cache_config, nkeys, nops,
    invoked, workers, last>>

Init ==
  /\ servers = [i \in ServerIds |-> NoServer]
  /\ peers = [i \in PeerIds |-> NoPeer]
  /\ queue = <<>>
  /\ live = [i \in Ifaces |-> {}]
  /\ conf = [i \in Ifaces |-> NoConf]
  /\ cache_default = NoCache
  /\ cache_config = [i \in ServerIds |-> NoServer]
  /\ nkeys = 0
  /\ nops = 0
  /\ invoked = [k \in {"onboard", "sync", "inject"} |-> [i \in ServerIds \cup PeerIds |-> 0]]
  /\ workers = [w \in Workers |-> Idle]
  /\ last = NoLast

StoredServers == {i \in ServerIds : servers[i].st = "stored"}
StoredPeers == {i \in PeerIds : peers[i].st = "stored"}
NewServerId == Cardinality({i \in ServerIds : servers[i].st # "absent"}) + 1
NewPeerId == Cardinality({i \in PeerIds : peers[i].st # "absent"}) + 1

\* ------------------------------------------------------- default server
\* WireGuardServer.objects.filter(is_active=True).first() under
\* Meta.ordering = ['-created_at']: the most recently created active row.
DefaultQuery(srv) ==
  LET act == {i \in ServerIds : srv[i].st = "stored" /\ srv[i].is_active}
  IN IF act = {} THEN 0 ELSE CHOOSE i \in act : \A j \in act : j <= i

\* WireGuardServer.get_default: the cached snapshot if there is one, else the
\* query, whose result (if any) is cached. The value is both what is returned
\* and what the cache holds afterwards.
GetDefault(cache, srv) ==
  IF cache.id # 0 THEN cache
  ELSE LET d == DefaultQuery(srv)
       IN IF d = 0 THEN NoCache ELSE [id |-> d, row |-> srv[d]]

\* WireGuardPeer.get_server: the peer's own server, or the default one.
GetServer(p, cache, srv) ==
  IF p.server # 0 THEN [id |-> p.server, row |-> srv[p.server]]
  ELSE GetDefault(cache, srv)

CacheAfterGetServer(p, cache, srv) ==
  IF p.server # 0 THEN cache ELSE GetDefault(cache, srv)

\* ------------------------------------------------------------ Server writes
\* Mutant: save looks at the public key only.
NeedsKeysPublicOnly(row) == KeyMissing(row.public_key)

\* WireGuardServer.save: private_key_missing or public_key_missing.
NeedsKeys(row) ==
  KeyMissing(row.private_key_encrypted) \/ KeyMissing(row.public_key)

\* The row WireGuardServer.save hands to super().save(): kg is what the try
\* block did ("none": not entered, "ok": generate_keys returned k and it was
\* stored, "fail": generate_keys raised, "encfail": generate_keys returned k,
\* the public key was assigned and set_private_key raised).
SavedRow(rowIn, kg, k) ==
  IF kg = "none" THEN rowIn
  ELSE IF kg = "ok"
       THEN [rowIn EXCEPT !.public_key = PubOf(k),
                          !.private_key_encrypted = Encrypt(k)]
  ELSE IF kg = "encfail"
       THEN [rowIn EXCEPT !.public_key = PubOf(k),
                          !.private_key_encrypted = FillPlaceholder(@)]
       ELSE [rowIn EXCEPT !.public_key = FillPlaceholder(@),
                          !.private_key_encrypted = FillPlaceholder(@)]

\* Mutant: save leaves the Server's server-config entry in the cache.
SaveKeepsConfig(cfg, id) == cfg

\* WireGuardServer.save, after super().save():
\* cache.delete(WG_SERVER_CONFIG_CACHE_KEY_PATTERN.format(server_id=self.id)).
SaveInvalidates(cfg, id) == [cfg EXCEPT ![id] = NoServer]

\* Mutant: delete leaves the Server's server-config entry in the cache.
DeleteKeepsConfig(cfg, id) == cfg

\* WireGuardServer.delete, before super().delete(): the same cache.delete.
DeleteInvalidates(cfg, id) == [cfg EXCEPT ![id] = NoServer]

\* post_save receivers of WireGuardServer: what they enqueue.
ServerSaveSignals(id) == <<Task("sync", id)>>

ServerSave(id, rowIn, created) ==
  \E kg \in {"none", "ok", "fail", "encfail"} :
    /\ (kg = "none") <=> ~NeedsKeys(rowIn)
    /\ LET row == SavedRow(rowIn, kg, GenPrivate(nkeys + 1))
       IN /\ servers' = [servers EXCEPT ![id] = [row EXCEPT !.st = "stored"]]
          /\ nkeys' = IF kg \in {"ok", "encfail"} THEN nkeys + 1 ELSE nkeys
          /\ queue' = queue \o ServerSaveSignals(id)
          /\ cache_default' = NoCache
          /\ cache_config' = SaveInvalidates(cache_config, id)
          /\ last' = [NoLast EXCEPT !.op = "ServerSave", !.id = id,
                                    !.created = created, !.keygen = kg,
                                    !.pre_pub = rowIn.public_key,
                                    !.pre_priv = rowIn.private_key_encrypted,
                                    !.enq = ServerSaveSignals(id),
                                    !.status = "saved"]
    /\ nops' = nops + 1
    /\ UNCHANGED <<peers, live, conf, invoked, workers>>

\* A new Server from the admin form: key fields blank, or (setup_wg_server) a
\* pre-generated public key and the private key not yet set.
ServerCreate ==
  /\ nops < MaxOps
  /\ NewServerId \in ServerIds
  /\ \E act \in BOOLEAN, ifc \in Ifaces, pub \in {"", PubOf(GenPrivate(0))} :
       ServerSave(NewServerId,
                  [NoServer EXCEPT !.is_active = act, !.interface = ifc,
                                   !.public_key = pub],
                  TRUE)

\* An existing Server saved again (the admin form edits is_active; interface
\* and the key fields are read-only there).
ServerUpdate ==
  /\ nops < MaxOps
  /\ \E id \in StoredServers, act \in BOOLEAN :
       ServerSave(id, [servers[id] EXCEPT !.is_active = act], FALSE)

\* Mutant: delete leaves the default-server entry in the cache.
ServerDeleteKeepsDefault ==
  /\ nops < MaxOps
  /\ \E id \in StoredServers :
       LET protected == \E p \in StoredPeers : peers[p].server = id
       IN /\ servers' = IF protected THEN servers
                        ELSE [servers EXCEPT ![id].st = "deleted"]
          /\ last' = [NoLast EXCEPT !.op = "ServerDelete", !.id = id,
                          !.status = IF protected THEN "rejected" ELSE "deleted"]
          /\ cache_config' = [cache_config EXCEPT ![id] = NoServer]
  /\ nops' = nops + 1
  /\ UNCHANGED <<peers, queue, live, conf, cache_default, nkeys, invoked, workers>>

\* Mutant: the row is deleted whether or not a Peer references it.
ServerDeleteUnprotected ==
  /\ nops < MaxOps
  /\ \E id \in StoredServers :
       /\ servers' = [servers EXCEPT ![id].st = "deleted"]
       /\ last' = [NoLast EXCEPT !.op = "ServerDelete", !.id = id,
                                 !.status = "deleted"]
       /\ cache_config' = [cache_config EXCEPT ![id] = NoServer]
  /\ cache_default' = NoCache
  /\ nops' = nops + 1
  /\ UNCHANGED <<peers, queue, live, conf, nkeys, invoked, workers>>

\* WireGuardServer.delete: caches invalidated, then the row is deleted unless a
\* Peer references it (on_delete=PROTECT raises).
ServerDelete ==
  /\ nops < MaxOps
  /\ \E id \in StoredServers :
       LET protected == \E p \in StoredPeers : peers[p].server = id
       IN /\ servers' = IF protected THEN servers
                        ELSE [servers EXCEPT ![id].st = "deleted"]
          /\ last' = [NoLast EXCEPT !.op = "ServerDelete", !.id = id,
                          !.status = IF protected THEN "rejected" ELSE "deleted"]
          /\ cache_config' = DeleteInvalidates(cache_config, id)
  /\ cache_default' = NoCache
  /\ nops' = nops + 1
  /\ UNCHANGED <<peers, queue, live, conf, nkeys, invoked, workers>>

\* -------------------------------------------------------------- Peer writes
\* Mutant: onboarding is triggered for new Peers only.
NeedsOnboardingCreatedOnly(created, pk) == created

\* trigger_onboarding: "created or (not public_key or public_key.strip() in ('', '-'))"
NeedsOnboarding(created, pk) == created \/ KeyMissing(pk)

\* Mutant: the early return for a new Peer is missing.
InjectsOnSaveAlways(created) == TRUE

\* trigger_peer_injection: returns early when created.
InjectsOnSave(created) == ~created

\* The two post_save receivers of WireGuardPeer, in registration order.
PeerSaveSignals(id, row, created) ==
  (IF NeedsOnboarding(created, row.public_key) THEN <<Task("onboard", id)>> ELSE <<>>)
  \o (IF InjectsOnSave(created) THEN <<Task("inject", id)>> ELSE <<>>)

\* trigger_peer_removal (post_delete).
PeerDeleteSignals(id) == <<Task("inject", id)>>

PeerSave(id, row, created) ==
  /\ peers' = [peers EXCEPT ![id] = [row EXCEPT !.st = "stored"]]
  /\ queue' = queue \o PeerSaveSignals(id, row, created)
  /\ last' = [NoLast EXCEPT !.op = "PeerSave", !.id = id, !.created = created,
                            !.pre_pub = row.public_key,
                            !.enq = PeerSaveSignals(id, row, created),
                            !.status = "saved"]
  /\ nops' = nops + 1
  /\ UNCHANGED <<servers, live, conf, cache_default, cache_config, nkeys, invoked, workers>>

PeerCreate ==
  /\ nops < MaxOps
  /\ NewPeerId \in PeerIds
  /\ \E act \in BOOLEAN, s \in {0} \cup StoredServers :
       PeerSave(NewPeerId, [NoPeer EXCEPT !.is_active = act, !.server = s], TRUE)

PeerUpdate ==
  /\ nops < MaxOps
  /\ \E id \in StoredPeers, act \in BOOLEAN, s \in {0} \cup StoredServers :
       PeerSave(id, [peers[id] EXCEPT !.is_active = act, !.server = s], FALSE)

PeerDelete ==
  /\ nops < MaxOps
  /\ \E id \in StoredPeers :
       /\ peers' = [peers EXCEPT ![id].st = "deleted"]
       /\ queue' = queue \o PeerDeleteSignals(id)
       /\ last' = [NoLast EXCEPT !.op = "PeerDelete", !.id = id,
                                 !.pre_pub = peers[id].public_key,
                                 !.enq = PeerDeleteSignals(id),
                                 !.status = "deleted"]
  /\ nops' = nops + 1
  /\ UNCHANGED <<servers, live, conf, cache_default, cache_config, nkeys, invoked, workers>>

\* ------------------------------------------------------------------- tasks
\* @shared_task(bind=True, max_retries=2) on sync_wg_config.
MaxRetriesSync == 2

\* Mutant: a retry is scheduled whatever the number of retries so far.
RetryUnbounded(t, max) == <<[t EXCEPT !.retries = @ + 1]>>

\* self.retry(exc=e): the task is queued again unless its retries are used up.
Retry(t, max) == IF t.retries < max THEN <<[t EXCEPT !.retries = @ + 1]>> ELSE <<>>

RetryStatus(t, max) == IF t.retries < max THEN "retry" ELSE "failed"

Count(kind, id) == [invoked EXCEPT ![kind][id] = @ + 1]

\* services.onboarding.onboard: a Peer lacking usable key material gets a
\* generated pair, persisted with save().
OnboardGenerates(p) == KeyMissing(p.public_key)

OnboardedRow(p, k) ==
  [p EXCEPT !.public_key = PubOf(k), !.private_key_encrypted = Encrypt(k)]

\* Mutant: the two follow-up tasks are queued in the other order.
OnboardFollowUpsSwapped(sid, pid) ==
  IF sid # 0 THEN <<Task("inject", pid), Task("sync", sid)>> ELSE <<>>

\* onboard_peer's success path: "if server: sync_wg_config.delay(server.id);
\* inject_peer_live.delay(peer.id)".
OnboardFollowUps(sid, pid) ==
  IF sid # 0 THEN <<Task("sync", sid), Task("inject", pid)>> ELSE <<>>

OnboardPeer ==
  /\ queue # <<>>
  /\ Head(queue).kind = "onboard"
  /\ LET t == Head(queue)
         p == peers[t.id]
         gen == OnboardGenerates(p)
         row == IF gen THEN OnboardedRow(p, GenPrivate(nkeys + 1)) ELSE p
         sig == IF gen THEN PeerSaveSignals(t.id, row, FALSE) ELSE <<>>
         srv == GetServer(row, cache_default, servers)
         follow == OnboardFollowUps(srv.id, t.id)
     IN /\ IF p.st # "stored"
           THEN /\ queue' = Tail(queue)
                /\ last' = [NoLast EXCEPT !.op = "onboard", !.id = t.id,
                                          !.status = "error"]
                /\ UNCHANGED <<peers, cache_default, nkeys>>
           ELSE /\ peers' = [peers EXCEPT ![t.id] = row]
                /\ nkeys' = IF gen THEN nkeys + 1 ELSE nkeys
                /\ cache_default' = CacheAfterGetServer(row, cache_default, servers)
                /\ queue' = Tail(queue) \o sig \o follow
                /\ last' = [NoLast EXCEPT !.op = "onboard", !.id = t.id,
                               !.keygen = IF gen THEN "ok" ELSE "none",
                               !.pre_pub = p.public_key,
                               !.enq = follow, !.status = "success"]
  /\ UNCHANGED <<cache_config, servers, live, conf, nops, workers>>

\* services.onboarding.generate_server_config: one [Peer] block per active
\* Peer of the Server, after the [Interface] section with the private key.
ActivePeersOf(sid, prs) ==
  {i \in PeerIds : prs[i].st = "stored" /\ prs[i].is_active /\ prs[i].server = sid}

RenderConf(sid, key, prs) ==
  [server |-> sid, private_key |-> key,
   peers |-> {[peer |-> i, public_key |-> prs[i].public_key] : i \in ActivePeersOf(sid, prs)}]

\* Mutant: tee is run before the private key is decrypted.
SyncWgConfigWritesFirst ==
  /\ queue # <<>>
  /\ Head(queue).kind = "sync"
  /\ LET t == Head(queue)
         s == servers[t.id]
     IN /\ IF s.st # "stored"
           THEN /\ queue' = Tail(queue)
                /\ last' = [NoLast EXCEPT !.op = "sync", !.id = t.id,
                                          !.status = "error"]
                /\ UNCHANGED conf
           ELSE IF ~CanDecrypt(s.private_key_encrypted)
           THEN /\ queue' = Tail(queue) \o Retry(t, MaxRetriesSync)
                /\ last' = [NoLast EXCEPT !.op = "sync", !.id = t.id,
                               !.enq = Retry(t, MaxRetriesSync),
                               !.status = RetryStatus(t, MaxRetriesSync)]
                /\ conf' = [conf EXCEPT ![s.interface] =
                              RenderConf(t.id, "", peers)]
           ELSE /\ queue' = Tail(queue)
                /\ conf' = [conf EXCEPT ![s.interface] =
                              RenderConf(t.id, Decrypt(s.private_key_encrypted), peers)]
                /\ last' = [NoLast EXCEPT !.op = "sync", !.id = t.id,
                                          !.status = "success"]
  /\ UNCHANGED <<servers, peers, live, cache_default, cache_config, nkeys, nops, workers>>

SyncWgConfig ==
  /\ queue # <<>>
  /\ Head(queue).kind = "sync"
  /\ LET t == Head(queue)
         s == servers[t.id]
     IN /\ IF s.st # "stored"
           THEN /\ queue' = Tail(queue)
                /\ last' = [NoLast EXCEPT !.op = "sync", !.id = t.id,
                                          !.status = "error"]
                /\ UNCHANGED conf
           ELSE IF ~CanDecrypt(s.private_key_encrypted)
           THEN /\ queue' = Tail(queue) \o Retry(t, MaxRetriesSync)
                /\ last' = [NoLast EXCEPT !.op = "sync", !.id = t.id,
                               !.enq = Retry(t, MaxRetriesSync),
                               !.status = RetryStatus(t, MaxRetriesSync)]
                /\ UNCHANGED conf
           ELSE /\ queue' = Tail(queue)
                /\ conf' = [conf EXCEPT ![s.interface] =
                              RenderConf(t.id, Decrypt(s.private_key_encrypted), peers)]
                /\ last' = [NoLast EXCEPT !.op = "sync", !.id = t.id,
                                          !.status = "success"]
  /\ UNCHANGED <<servers, peers, live, cache_default, cache_config, nkeys, nops, workers>>

\* Mutant: the check of the public key is missing.
InjectCmdNoKeyCheck(p, srv) ==
  IF srv.id = 0 \/ ~srv.row.is_active THEN "skip-server"
  ELSE IF p.is_active THEN "set" ELSE "remove"

\* inject_peer_live up to the command it builds: skipped without an active
\* server or a usable public key, else "wg set ... allowed-ips" for an active
\* Peer and "wg set ... remove" for an inactive one.
InjectCmd(p, srv) ==
  IF srv.id = 0 \/ ~srv.row.is_active THEN "skip-server"
  ELSE IF KeyMissing(p.public_key) THEN "skip-key"
  ELSE IF p.is_active THEN "set" ELSE "remove"

\* Mutant: removing a key that is not in the table puts it there.
WgSetRemoveToggles(tbl, ifc, key, cmd) ==
  IF cmd = "set" THEN [tbl EXCEPT ![ifc] = @ \cup {key}]
  ELSE IF cmd = "remove"
       THEN [tbl EXCEPT ![ifc] = IF key \in @ THEN @ \ {key} ELSE @ \cup {key}]
  ELSE tbl

\* wg set <interface> peer <key> allowed-ips ... | remove, on the peer table.
WgSet(tbl, ifc, key, cmd) ==
  IF cmd = "set" THEN [tbl EXCEPT ![ifc] = @ \cup {key}]
  ELSE IF cmd = "remove" THEN [tbl EXCEPT ![ifc] = @ \ {key}]
  ELSE tbl

InjectStatus(cmd) == IF cmd \in {"set", "remove"} THEN "success" ELSE "skipped"

InjectPeerLive ==
  /\ queue # <<>>
  /\ Head(queue).kind = "inject"
  /\ LET t == Head(queue)
         p == peers[t.id]
     IN /\ IF p.st # "stored"
           THEN /\ last' = [NoLast EXCEPT !.op = "inject", !.id = t.id,
                                          !.status = "error"]
                /\ UNCHANGED <<live, cache_default>>
           ELSE LET srv == GetServer(p, cache_default, servers)
                    cmd == InjectCmd(p, srv)
                IN /\ cache_default' = CacheAfterGetServer(p, cache_default, servers)
                   /\ live' = WgSet(live, srv.row.interface, p.public_key, cmd)
                   /\ last' = [NoLast EXCEPT !.op = "inject", !.id = t.id,
                                             !.status = InjectStatus(cmd)]
        /\ queue' = Tail(queue)
  /\ UNCHANGED <<cache_config, servers, peers, conf, nkeys, nops, workers>>

\* ---------------------------------------------------------- specification
\* One worker takes the task at the head of the queue and runs it to its end.
RunOnboard == OnboardPeer /\ UNCHANGED invoked
RunSync == SyncWgConfig /\ UNCHANGED invoked
RunInject == InjectPeerLive /\ UNCHANGED invoked

\* Entity writes at any time; the queue is drained by one worker, one task at
\* a time, in enqueue order.
Next ==
  \/ ServerCreate
  \/ ServerUpdate
  \/ ServerDelete
  \/ PeerCreate
  \/ PeerUpdate
  \/ PeerDelete
  \/ RunOnboard
  \/ RunSync
  \/ RunInject

Spec == Init /\ [][Next]_vars

\* An installation that has converged once: Server 1 active with its key pair
\* and its configuration file written, Peer 1 onboarded, active and in the
\* live peer table, nothing queued. The writes counted from here are those of
\* the run.
InitSteady ==
  /\ servers = [i \in ServerIds |->
       IF i = 1 THEN [st |-> "stored", is_active |-> TRUE,
                      public_key |-> PubOf(GenPrivate(1)),
                      private_key_encrypted |-> Encrypt(GenPrivate(1)),
                      interface |-> "wg0"]
       ELSE NoServer]
  /\ peers = [i \in PeerIds |->
       IF i = 1 THEN [st |-> "stored", server |-> 1,
                      public_key |-> PubOf(GenPrivate(2)),
                      private_key_encrypted |-> Encrypt(GenPrivate(2)),
                      is_active |-> TRUE]
       ELSE NoPeer]
  /\ queue = <<>>
  /\ live = [i \in Ifaces |-> IF i = "wg0" THEN {PubOf(GenPrivate(2))} ELSE {}]
  /\ conf = [i \in Ifaces |->
       IF i = "wg0" THEN RenderConf(1, GenPrivate(1), peers) ELSE NoConf]
  /\ cache_default = NoCache
  /\ cache_config = [i \in ServerIds |-> NoServer]
  /\ nkeys = 2
  /\ nops = 0
  /\ invoked = [k \in {"onboard", "sync", "inject"} |-> [i \in ServerIds \cup PeerIds |-> 0]]
  /\ workers = [w \in Workers |-> Idle]
  /\ last = NoLast

SpecSteady == InitSteady /\ [][Next]_vars

\* Creates and updates only (no row is deleted), from the converged state.
NextWrites ==
  \/ ServerCreate
  \/ ServerUpdate
  \/ PeerCreate
  \/ PeerUpdate
  \/ RunOnboard
  \/ RunSync
  \/ RunInject

SpecWrites == InitSteady /\ [][NextWrites]_vars

\* A Server that has converged (as in InitSteady) and no Peer yet; the worker
\* counts the executions of each task.
InitOnboard ==
  /\ servers = [i \in ServerIds |->
       IF i = 1 THEN [st |-> "stored", is_active |-> TRUE,
                      public_key |-> PubOf(GenPrivate(1)),
                      private_key_encrypted |-> Encrypt(GenPrivate(1)),
                      interface |-> "wg0"]
       ELSE NoServer]
  /\ peers = [i \in PeerIds |-> NoPeer]
  /\ queue = <<>>
  /\ live = [i \in Ifaces |-> {}]
  /\ conf = [i \in Ifaces |->
       IF i = "wg0" THEN RenderConf(1, GenPrivate(1), peers) ELSE NoConf]
  /\ cache_default = NoCache
  /\ cache_config = [i \in ServerIds |-> NoServer]
  /\ nkeys = 1
  /\ nops = 0
  /\ invoked = [k \in {"onboard", "sync", "inject"} |-> [i \in ServerIds \cup PeerIds |-> 0]]
  /\ workers = [w \in Workers |-> Idle]
  /\ last = NoLast

RunCounted ==
  /\ queue # <<>>
  /\ invoked' = Count(Head(queue).kind, Head(queue).id)
  /\ \/ OnboardPeer
     \/ SyncWgConfig
     \/ InjectPeerLive

\* Peers are created, nothing else is written; one worker drains the queue.
NextOnboard ==
  \/ PeerCreate
  \/ RunCounted

SpecOnboard == InitOnboard /\ [][NextOnboard]_vars

\* ------------------------------------------------- parallel Inject-Peer
\* inject_peer_live on worker w, up to the point where its command is built:
\* the task is taken from the queue and the Peer and its Server are read.
InjectRead(w) ==
  /\ workers[w].st = "idle"
  /\ queue # <<>>
  /\ Head(queue).kind = "inject"
  /\ LET t == Head(queue)
         p == peers[t.id]
         srv == GetServer(p, cache_default, servers)
         cmd == InjectCmd(p, srv)
     IN /\ queue' = Tail(queue)
        /\ IF p.st # "stored"
           THEN /\ last' = [NoLast EXCEPT !.op = "inject", !.id = t.id,
                                          !.status = "error"]
                /\ UNCHANGED <<workers, cache_default>>
           ELSE /\ cache_default' = CacheAfterGetServer(p, cache_default, servers)
                /\ IF cmd \in {"set", "remove"}
                   THEN /\ workers' = [workers EXCEPT ![w] =
                              [st |-> "cmd", peer |-> t.id, cmd |-> cmd,
                               iface |-> srv.row.interface, key |-> p.public_key]]
                        /\ last' = [NoLast EXCEPT !.op = "inject-read", !.id = t.id]
                   ELSE /\ last' = [NoLast EXCEPT !.op = "inject", !.id = t.id,
                                                  !.status = InjectStatus(cmd)]
                        /\ UNCHANGED workers
  /\ UNCHANGED <<cache_config, servers, peers, live, conf, nkeys, nops, invoked>>

\* The rest of inject_peer_live on worker w: subprocess.run(cmd) and return.
InjectApply(w) ==
  /\ workers[w].st = "cmd"
  /\ live' = WgSet(live, workers[w].iface, workers[w].key, workers[w].cmd)
  /\ workers' = [workers EXCEPT ![w] = Idle]
  /\ last' = [NoLast EXCEPT !.op = "inject", !.id = workers[w].peer,
                            !.status = "success"]
  /\ UNCHANGED <<servers, peers, queue, conf, cache_default, cache_config, nkeys, nops, invoked>>

\* Peers are updated while the workers of the pool run their Inject-Peer
\* tasks side by side.
NextRace ==
  \/ PeerUpdate
  \/ \E w \in Workers : InjectRead(w)
  \/ \E w \in Workers : InjectApply(w)

SpecRace == InitSteady /\ [][NextRace]_vars

\* ------------------------------------------ task executions that can fail
\* @shared_task(bind=True, max_retries=3) on onboard_peer.
MaxRetriesOnboard == 3

\* @shared_task(bind=True, max_retries=2) on inject_peer_live.
MaxRetriesInject == 2

MaxRetries(kind) ==
  CASE kind = "onboard" -> MaxRetriesOnboard
    [] kind = "sync" -> MaxRetriesSync
    [] OTHER -> MaxRetriesInject

\* self.retry(exc=e, countdown=...): the delay before the next attempt.
Countdown(kind) ==
  CASE kind = "onboard" -> 10
    [] kind = "sync" -> 10
    [] OTHER -> 5

\* Mutant: "not found" is handled like any other exception.
HandlerRetriesNotFound(kind, exc) ==
  IF exc = "none" THEN "return"
  ELSE IF exc = "PermissionError" /\ kind # "onboard" THEN "raise"
  ELSE "retry"

\* The except clauses of the three tasks: DoesNotExist returns an error
\* status; PermissionError is re-raised by sync_wg_config and
\* inject_peer_live (onboard_peer has no such clause); anything else goes to
\* self.retry.
Handler(kind, exc) ==
  IF exc = "none" THEN "return"
  ELSE IF exc = "DoesNotExist" THEN "error"
  ELSE IF exc = "PermissionError" /\ kind # "onboard" THEN "raise"
  ELSE "retry"

\* Mutant: a retry is the same task again, its count of retries as it was.
RequeueSame(t, how) == IF how = "retry" THEN <<t>> ELSE <<>>

\* What the execution of task t leaves in the queue for itself.
Requeue(t, how) == IF how = "retry" THEN Retry(t, MaxRetries(t.kind)) ELSE <<>>

\* How the execution of task t ends (ok: the status of its normal return).
EndStatus(t, how, ok) ==
  IF how = "return" THEN ok
  ELSE IF how = "error" THEN "error"
  ELSE IF how = "raise" THEN "raised"
  ELSE RetryStatus(t, MaxRetries(t.kind))

\* The record of an execution: the fault injected, the exception it led to,
\* which attempt of the task this was, the delay of the retry it scheduled,
\* and the configuration files, live tables and queue as they were when it
\* started.
ExecLast(t, fault, exc, enq, status) ==
  [NoLast EXCEPT !.op = t.kind, !.id = t.id, !.enq = enq, !.status = status] @@
  [fault |-> fault, exc |-> exc, attempt |-> t.retries + 1,
   countdown |-> IF status = "retry" THEN Countdown(t.kind) ELSE 0,
   conf_before |-> conf, live_before |-> live, queue_before |-> queue]

\* What can go wrong in sync_wg_config: the database read raises; "sudo -n
\* tee" is rejected by sudo, cannot open the file, or fails while writing
\* (after it truncated the file); "sudo -n chmod" is rejected or fails.
SyncFaults ==
  {"none", "db_error", "tee_denied", "tee_open", "tee_write",
   "chmod_denied", "chmod_failed"}

\* The commands are run only once the Server was read and its key decrypted.
SyncFaultPossible(s, fault) ==
  fault \in {"none", "db_error"}
    \/ (s.st = "stored" /\ CanDecrypt(s.private_key_encrypted))

\* The exception sync_wg_config's try block ends with: a non-zero exit of tee
\* raises PermissionError whatever its cause; chmod runs with check=True and
\* raises CalledProcessError.
SyncException(s, fault) ==
  IF fault = "db_error" THEN "OperationalError"
  ELSE IF s.st # "stored" THEN "DoesNotExist"
  ELSE IF ~CanDecrypt(s.private_key_encrypted) THEN "InvalidToken"
  ELSE IF fault \in {"tee_denied", "tee_open", "tee_write"} THEN "PermissionError"
  ELSE IF fault \in {"chmod_denied", "chmod_failed"} THEN "CalledProcessError"
  ELSE "none"

\* The file once the execution has ended: tee wrote it unless it was rejected
\* or could not open it; a tee that failed while writing leaves the file it
\* truncated.
SyncFileAfter(old, new, fault) ==
  IF fault \in {"none", "chmod_denied", "chmod_failed"} THEN new
  ELSE IF fault = "tee_write" THEN NoConf
  ELSE old

ExecSync ==
  /\ queue # <<>>
  /\ Head(queue).kind = "sync"
  /\ \E fault \in SyncFaults :
       LET t == Head(queue)
           s == servers[t.id]
           exc == SyncException(s, fault)
           how == Handler("sync", exc)
           enq == Requeue(t, how)
           ran == exc \in {"none", "PermissionError", "CalledProcessError"}
       IN /\ SyncFaultPossible(s, fault)
          /\ queue' = Tail(queue) \o enq
          /\ conf' = IF ran
                     THEN [conf EXCEPT ![s.interface] =
                             SyncFileAfter(@, RenderConf(t.id,
                                 Decrypt(s.private_key_encrypted), peers), fault)]
                     ELSE conf
          /\ last' = ExecLast(t, fault, exc, enq, EndStatus(t, how, "success"))
  /\ UNCHANGED <<servers, peers, live, cache_default, cache_config, nkeys, nops, invoked, workers>>

\* What can go wrong in inject_peer_live: the database read raises; "sudo -n
\* wg set" is rejected by sudo, or wg exits non-zero for another reason.
InjectFaults == {"none", "db_error", "cmd_denied", "cmd_failed"}

\* The command is run only for a stored Peer that is not skipped.
InjectFaultPossible(p, cmd, fault) ==
  fault \in {"none", "db_error"}
    \/ (p.st = "stored" /\ cmd \in {"set", "remove"})

\* "if proc.returncode != 0: raise PermissionError(proc.stderr.strip())"
InjectException(p, fault) ==
  IF fault = "db_error" THEN "OperationalError"
  ELSE IF p.st # "stored" THEN "DoesNotExist"
  ELSE IF fault \in {"cmd_denied", "cmd_failed"} THEN "PermissionError"
  ELSE "none"

\* Mutant: the execution saves the Peer as inactive.
ExecInjectDeactivates ==
  /\ queue # <<>>
  /\ Head(queue).kind = "inject"
  /\ \E fault \in InjectFaults :
       LET t == Head(queue)
           p == peers[t.id]
           srv == GetServer(p, cache_default, servers)
           cmd == IF p.st = "stored" THEN InjectCmd(p, srv) ELSE "none"
           exc == InjectException(p, fault)
           how == Handler("inject", exc)
           enq == Requeue(t, how)
           read == p.st = "stored" /\ fault # "db_error"
       IN /\ InjectFaultPossible(p, cmd, fault)
          /\ queue' = Tail(queue) \o enq
          /\ cache_default' = IF read
                              THEN CacheAfterGetServer(p, cache_default, servers)
                              ELSE cache_default
          /\ live' = IF read /\ exc = "none"
                     THEN WgSet(live, srv.row.interface, p.public_key, cmd)
                     ELSE live
          /\ last' = ExecLast(t, fault, exc, enq,
                              EndStatus(t, how, InjectStatus(cmd)))
  /\ peers' = [peers EXCEPT ![Head(queue).id].is_active = FALSE]
  /\ UNCHANGED <<cache_config, servers, conf, nkeys, nops, invoked, workers>>

ExecInject ==
  /\ queue # <<>>
  /\ Head(queue).kind = "inject"
  /\ \E fault \in InjectFaults :
       LET t == Head(queue)
           p == peers[t.id]
           srv == GetServer(p, cache_default, servers)
           cmd == IF p.st = "stored" THEN InjectCmd(p, srv) ELSE "none"
           exc == InjectException(p, fault)
           how == Handler("inject", exc)
           enq == Requeue(t, how)
           read == p.st = "stored" /\ fault # "db_error"
       IN /\ InjectFaultPossible(p, cmd, fault)
          /\ queue' = Tail(queue) \o enq
          /\ cache_default' = IF read
                              THEN CacheAfterGetServer(p, cache_default, servers)
                              ELSE cache_default
          /\ live' = IF read /\ exc = "none"
                     THEN WgSet(live, srv.row.interface, p.public_key, cmd)
                     ELSE live
          /\ last' = ExecLast(t, fault, exc, enq,
                              EndStatus(t, how, InjectStatus(cmd)))
  /\ UNCHANGED <<cache_config, servers, peers, conf, nkeys, nops, invoked, workers>>

\* What can go wrong in onboard_peer: onboard() raises before it has written
\* anything (the database, the key generation).
OnboardFaults == {"none", "error"}

OnboardException(p, fault) ==
  IF fault = "error" THEN "OnboardError"
  ELSE IF p.st # "stored" THEN "DoesNotExist"
  ELSE "none"

ExecOnboard ==
  /\ queue # <<>>
  /\ Head(queue).kind = "onboard"
  /\ \E fault \in OnboardFaults :
       LET t == Head(queue)
           p == peers[t.id]
           exc == OnboardException(p, fault)
           how == Handler("onboard", exc)
           gen == exc = "none" /\ OnboardGenerates(p)
           row == IF gen THEN OnboardedRow(p, GenPrivate(nkeys + 1)) ELSE p
           sig == IF gen THEN PeerSaveSignals(t.id, row, FALSE) ELSE <<>>
           srv == GetServer(row, cache_default, servers)
           follow == IF exc = "none" THEN OnboardFollowUps(srv.id, t.id) ELSE <<>>
           enq == follow \o Requeue(t, how)
       IN /\ peers' = [peers EXCEPT ![t.id] = row]
          /\ nkeys' = IF gen THEN nkeys + 1 ELSE nkeys
          /\ cache_default' = IF exc = "none"
                              THEN CacheAfterGetServer(row, cache_default, servers)
                              ELSE cache_default
          /\ queue' = Tail(queue) \o sig \o enq
          /\ last' = ExecLast(t, fault, exc, enq, EndStatus(t, how, "success"))
  /\ UNCHANGED <<cache_config, servers, live, conf, nops, invoked, workers>>

\* A converged Server (as in InitOnboard) whose first Peer has just been
\* created: active, on Server 1, without keys, its Onboard queued.
InitFail ==
  /\ servers = [i \in ServerIds |->
       IF i = 1 THEN [st |-> "stored", is_active |-> TRUE,
                      public_key |-> PubOf(GenPrivate(1)),
                      private_key_encrypted |-> Encrypt(GenPrivate(1)),
                      interface |-> "wg0"]
       ELSE NoServer]
  /\ peers = [i \in PeerIds |->
       IF i = 1 THEN [NoPeer EXCEPT !.st = "stored", !.server = 1,
                                    !.is_active = TRUE]
       ELSE NoPeer]
  /\ queue = PeerSaveSignals(1, peers[1], TRUE)
  /\ live = [i \in Ifaces |-> {}]
  /\ conf = [i \in Ifaces |->
       IF i = "wg0" THEN RenderConf(1, GenPrivate(1), [k \in PeerIds |-> NoPeer])
       ELSE NoConf]
  /\ cache_default = NoCache
  /\ cache_config = [i \in ServerIds |-> NoServer]
  /\ nkeys = 1
  /\ nops = 1
  /\ invoked = [k \in {"onboard", "sync", "inject"} |-> [i \in ServerIds \cup PeerIds |-> 0]]
  /\ workers = [w \in Workers |-> Idle]
  /\ last = NoLast

\* The Peer and then its Server may be deleted at any time; one worker drains
\* the queue, and any execution may meet a fault.
NextFail ==
  \/ PeerDelete
  \/ ServerDelete
  \/ ExecOnboard
  \/ ExecSync
  \/ ExecInject

SpecFail == InitFail /\ [][NextFail]_vars

\* ------------------------------------------------ parallel Sync-Config
\* The [Peer] sections of a configuration in the order of the Peer query
\* (WireGuardPeer.Meta.ordering = ['-created_at']: newest first).
SortedPeers(ps) ==
  CHOOSE f \in [1..Cardinality(ps) -> ps] :
    \A i, j \in 1..Cardinality(ps) : i < j => f[i].peer > f[j].peer

\* A configuration as the text of the file: the [Interface] section, then the
\* [Peer] sections; nothing for a file that holds no configuration. The
\* specifications of this part keep the file as this sequence of sections,
\* which is what truncation and write offsets act on.
Sections(c) ==
  IF c.server = 0 THEN <<>>
  ELSE <<[section |-> "Interface", server |-> c.server,
          private_key |-> c.private_key]>> \o SortedPeers(c.peers)

\* tee writing data from offset 0 of a file it opened: the data replaces the
\* beginning of the file, what the file holds beyond it stays.
WriteAt0(file, data) == data \o SubSeq(file, Len(data) + 1, Len(file))

\* sync_wg_config on worker w up to the text it renders: the task is taken
\* from the queue, the Server is read, its key decrypted, the text rendered.
SyncRead(w) ==
  /\ workers[w].st = "idle"
  /\ queue # <<>>
  /\ Head(queue).kind = "sync"
  /\ LET t == Head(queue)
         s == servers[t.id]
     IN IF s.st # "stored"
        THEN /\ queue' = Tail(queue)
             /\ last' = [NoLast EXCEPT !.op = "sync", !.id = t.id,
                                       !.status = "error"]
             /\ UNCHANGED workers
        ELSE IF ~CanDecrypt(s.private_key_encrypted)
        THEN /\ queue' = Tail(queue) \o Retry(t, MaxRetriesSync)
             /\ last' = [NoLast EXCEPT !.op = "sync", !.id = t.id,
                            !.enq = Retry(t, MaxRetriesSync),
                            !.status = RetryStatus(t, MaxRetriesSync)]
             /\ UNCHANGED workers
        ELSE /\ queue' = Tail(queue)
             /\ workers' = [workers EXCEPT ![w] =
                   [st |-> "open", task |-> t, iface |-> s.interface,
                    content |-> Sections(RenderConf(t.id,
                                   Decrypt(s.private_key_encrypted), peers)),
                    before |-> <<>>]]
             /\ last' = [NoLast EXCEPT !.op = "sync-read", !.id = t.id]
  /\ UNCHANGED <<servers, peers, live, conf, cache_default, cache_config, nkeys, nops, invoked>>

\* "sudo -n tee <config_path>" starts: tee opens the file for writing, which
\* truncates it.
SyncOpen(w) ==
  /\ workers[w].st = "open"
  /\ conf' = [conf EXCEPT ![workers[w].iface] = <<>>]
  /\ workers' = [workers EXCEPT ![w].st = "write",
                                ![w].before = conf[workers[w].iface]]
  /\ last' = [NoLast EXCEPT !.op = "sync-open", !.id = workers[w].task.id]
  /\ UNCHANGED <<servers, peers, queue, live, cache_default, cache_config, nkeys, nops, invoked>>

\* tee writes the text it was given from the start of the file and exits;
\* chmod 600 follows and the task returns.
SyncWrite(w) ==
  /\ workers[w].st = "write"
  /\ conf' = [conf EXCEPT ![workers[w].iface] = WriteAt0(@, workers[w].content)]
  /\ workers' = [workers EXCEPT ![w] = Idle]
  /\ last' = [NoLast EXCEPT !.op = "sync", !.id = workers[w].task.id,
                            !.status = "success"] @@
             [iface |-> workers[w].iface, content |-> workers[w].content,
              file_before |-> conf[workers[w].iface]]
  /\ UNCHANGED <<servers, peers, queue, live, cache_default, cache_config, nkeys, nops, invoked>>

\* A converged installation with two Peers: Server 1 active with its key pair,
\* Peers 1 and 2 onboarded, active and in the live peer table, the
\* configuration file written.
InitSyncRace ==
  /\ servers = [i \in ServerIds |->
       IF i = 1 THEN [st |-> "stored", is_active |-> TRUE,
                      public_key |-> PubOf(GenPrivate(1)),
                      private_key_encrypted |-> Encrypt(GenPrivate(1)),
                      interface |-> "wg0"]
       ELSE NoServer]
  /\ peers = [i \in PeerIds |->
       IF i <= 2 THEN [st |-> "stored", server |-> 1,
                       public_key |-> PubOf(GenPrivate(i + 1)),
                       private_key_encrypted |-> Encrypt(GenPrivate(i + 1)),
                       is_active |-> TRUE]
       ELSE NoPeer]
  /\ queue = <<>>
  /\ live = [i \in Ifaces |->
       IF i = "wg0" THEN {PubOf(GenPrivate(2)), PubOf(GenPrivate(3))} ELSE {}]
  /\ conf = [i \in Ifaces |->
       IF i = "wg0" THEN Sections(RenderConf(1, GenPrivate(1), peers)) ELSE <<>>]
  /\ cache_default = NoCache
  /\ cache_config = [i \in ServerIds |-> NoServer]
  /\ nkeys = 3
  /\ nops = 0
  /\ invoked = [k \in {"onboard", "sync", "inject"} |-> [i \in ServerIds \cup PeerIds |-> 0]]
  /\ workers = [w \in Workers |-> Idle]
  /\ last = NoLast

\* Servers and Peers are updated while the workers of the pool run their
\* Sync-Config tasks side by side.
NextSyncRace ==
  \/ ServerUpdate
  \/ PeerUpdate
  \/ \E w \in Workers : SyncRead(w)
  \/ \E w \in Workers : SyncOpen(w)
  \/ \E w \in Workers : SyncWrite(w)

SpecSyncRace == InitSyncRace /\ [][NextSyncRace]_vars

\* ------------------------------------------------ concurrent cache readers
\* WireGuardServer.get_default in process w, up to the query: cache.get finds
\* nothing and the store is read; a Server found is held for the cache.set
\* that follows, none found is returned as it is. (A hit returns the cached
\* value and changes nothing.)
GetDefaultMiss(w) ==
  /\ workers[w].st = "idle"
  /\ cache_default.id = 0
  /\ LET d == DefaultQuery(servers)
     IN /\ workers' = IF d = 0 THEN workers
                      ELSE [workers EXCEPT ![w] =
                              [st |-> "set", snapshot |-> [id |-> d, row |-> servers[d]]]]
        /\ last' = [NoLast EXCEPT !.op = "get_default-query", !.id = d]
  /\ UNCHANGED <<servers, peers, queue, live, conf, cache_default, cache_config, nkeys, nops, invoked>>

\* The rest of get_default in process w: cache.set(WG_SERVER_CACHE_KEY,
\* server, timeout=None) and return.
GetDefaultSet(w) ==
  /\ workers[w].st = "set"
  /\ cache_default' = workers[w].snapshot
  /\ workers' = [workers EXCEPT ![w] = Idle]
  /\ last' = [NoLast EXCEPT !.op = "get_default", !.id = workers[w].snapshot.id]
  /\ UNCHANGED <<cache_config, servers, peers, queue, live, conf, nkeys, nops, invoked>>

\* Servers are created and updated (each write with its invalidation, as one
\* step) while the processes of the pool call get_default.
NextCache ==
  \/ ServerCreate
  \/ ServerUpdate
  \/ \E w \in Workers : GetDefaultMiss(w)
  \/ \E w \in Workers : GetDefaultSet(w)

SpecCache == InitSteady /\ [][NextCache]_vars

\* ------------------------------------------------- writes with a failing cache
\* Whether the cache.delete calls of a write are inside a try/except:
\* WireGuardServer.save and delete guard them, WireGuardPeer.save and delete
\* call cache.delete bare after super().save() / super().delete().
CacheDeleteGuarded(op) == op \in {"ServerSave", "ServerDelete"}

\* How a write ends for its caller (ok: the status of its normal return) when
\* the cache is up or raises on delete.
WriteEnds(op, up, ok) == IF up \/ CacheDeleteGuarded(op) THEN ok ELSE "raised"

\* The default-server entry after the invalidation of a Server write.
Invalidated(cache, up) == IF up THEN NoCache ELSE cache

\* WireGuardServer.save of an existing row, the cache up or not.
ServerUpdateCache ==
  /\ nops < MaxOps
  /\ \E id \in StoredServers, act \in BOOLEAN, up \in BOOLEAN,
        kg \in {"none", "ok", "fail", "encfail"} :
       LET rowIn == [servers[id] EXCEPT !.is_active = act]
           row == SavedRow(rowIn, kg, GenPrivate(nkeys + 1))
       IN /\ (kg = "none") <=> ~NeedsKeys(rowIn)
          /\ servers' = [servers EXCEPT ![id] = row]
          /\ nkeys' = IF kg \in {"ok", "encfail"} THEN nkeys + 1 ELSE nkeys
          /\ queue' = queue \o ServerSaveSignals(id)
          /\ cache_default' = Invalidated(cache_default, up)
          /\ cache_config' = IF up THEN SaveInvalidates(cache_config, id)
                                    ELSE cache_config
          /\ last' = [NoLast EXCEPT !.op = "ServerSave", !.id = id, !.keygen = kg,
                                    !.pre_pub = rowIn.public_key,
                                    !.enq = ServerSaveSignals(id),
                                    !.status = WriteEnds("ServerSave", up, "saved")] @@
                     [cache_up |-> up, row |-> row]
  /\ nops' = nops + 1
  /\ UNCHANGED <<peers, live, conf, invoked, workers>>

\* WireGuardServer.delete, the cache up or not.
ServerDeleteCache ==
  /\ nops < MaxOps
  /\ \E id \in StoredServers, up \in BOOLEAN :
       LET protected == \E p \in StoredPeers : peers[p].server = id
           row == IF protected THEN servers[id]
                  ELSE [servers[id] EXCEPT !.st = "deleted"]
       IN /\ servers' = [servers EXCEPT ![id] = row]
          /\ cache_default' = Invalidated(cache_default, up)
          /\ cache_config' = IF up THEN DeleteInvalidates(cache_config, id)
                                    ELSE cache_config
          /\ last' = [NoLast EXCEPT !.op = "ServerDelete", !.id = id,
                        !.status = WriteEnds("ServerDelete", up,
                                     IF protected THEN "rejected" ELSE "deleted")] @@
                     [cache_up |-> up, row |-> row]
  /\ nops' = nops + 1
  /\ UNCHANGED <<peers, queue, live, conf, nkeys, invoked, workers>>

\* WireGuardPeer.save of an existing row, the cache up or not: the row is
\* written and the receivers have run when cache.delete is called.
PeerUpdateCache ==
  /\ nops < MaxOps
  /\ \E id \in StoredPeers, act \in BOOLEAN, up \in BOOLEAN :
       LET row == [peers[id] EXCEPT !.is_active = act]
       IN /\ peers' = [peers EXCEPT ![id] = row]
          /\ queue' = queue \o PeerSaveSignals(id, row, FALSE)
          /\ last' = [NoLast EXCEPT !.op = "PeerSave", !.id = id,
                                    !.pre_pub = row.public_key,
                                    !.enq = PeerSaveSignals(id, row, FALSE),
                                    !.status = WriteEnds("PeerSave", up, "saved")] @@
                     [cache_up |-> up, row |-> row]
  /\ nops' = nops + 1
  /\ UNCHANGED <<servers, live, conf, cache_default, cache_config, nkeys, invoked, workers>>

\* WireGuardPeer.delete, the cache up or not.
PeerDeleteCache ==
  /\ nops < MaxOps
  /\ \E id \in StoredPeers, up \in BOOLEAN :
       LET row == [peers[id] EXCEPT !.st = "deleted"]
       IN /\ peers' = [peers EXCEPT ![id] = row]
          /\ queue' = queue \o PeerDeleteSignals(id)
          /\ last' = [NoLast EXCEPT !.op = "PeerDelete", !.id = id,
                                    !.pre_pub = row.public_key,
                                    !.enq = PeerDeleteSignals(id),
                                    !.status = WriteEnds("PeerDelete", up, "deleted")] @@
                     [cache_up |-> up, row |-> row]
  /\ nops' = nops + 1
  /\ UNCHANGED <<servers, live, conf, cache_default, cache_config, nkeys, invoked, workers>>

\* Servers and Peers are written while the cache may be down; the default
\* server is read in between.
NextCacheFail ==
  \/ ServerUpdateCache
  \/ ServerDeleteCache
  \/ PeerUpdateCache
  \/ PeerDeleteCache
  \/ \E w \in Workers : GetDefaultMiss(w)
  \/ \E w \in Workers : GetDefaultSet(w)

SpecCacheFail == InitSteady /\ [][NextCacheFail]_vars

\* ------------------------------------------- writes with a failing task channel
\* Mutant: a receiver lets the exception of delay() through.
ReceiverPropagates(up) == IF up THEN "returned" ELSE "raised"

\* Every receiver calls delay() inside "try: ... except Exception: log": it
\* returns normally whether the task channel is up or not.
ReceiverEnds(up) == "returned"

\* task.delay(id): the task reaches the queue when the channel is up.
Delay(t, up) == IF up THEN <<t>> ELSE <<>>

\* One receiver's run: whether its rule applies, the task it enqueues, and the
\* state of the channel when it calls delay().
Receiver(applies, t, up) ==
  IF applies THEN [enq |-> Delay(t, up), ends |-> ReceiverEnds(up)]
  ELSE [enq |-> <<>>, ends |-> "returned"]

\* Signal.send: the receivers run in registration order; an exception leaving
\* a receiver is not caught by send, so it ends the dispatch and the write.
Send(rs) ==
  LET F[i \in 0..Len(rs)] ==
        IF i = 0 THEN [enq |-> <<>>, ends |-> "returned", ran |-> 0]
        ELSE IF F[i - 1].ends = "raised" THEN F[i - 1]
        ELSE [enq |-> F[i - 1].enq \o rs[i].enq, ends |-> rs[i].ends, ran |-> i]
  IN F[Len(rs)]

\* post_save of WireGuardPeer: trigger_onboarding, trigger_peer_injection.
PeerSaveSend(id, row, created, ups) ==
  Send(<<Receiver(NeedsOnboarding(created, row.public_key), Task("onboard", id), ups[1]),
         Receiver(InjectsOnSave(created), Task("inject", id), ups[2])>>)

\* post_delete of WireGuardPeer: trigger_peer_removal.
PeerDeleteSend(id, ups) == Send(<<Receiver(TRUE, Task("inject", id), ups[1])>>)

\* post_save of WireGuardServer: invalidate_server_cache (enqueues nothing),
\* sync_wg_config_on_save.
ServerSaveSend(id, ups) ==
  Send(<<Receiver(FALSE, Task("sync", id), TRUE),
         Receiver(TRUE, Task("sync", id), ups[1])>>)

\* The state of the channel at each of the (at most two) delay() calls of a write.
ChannelStates == {<<a, b>> : a \in BOOLEAN, b \in BOOLEAN}

\* What a write did, with the channel states it met and what it dispatched.
ChanLast(op, id, created, pub, row, ups, sent) ==
  [NoLast EXCEPT !.op = op, !.id = id, !.created = created, !.pre_pub = pub,
                 !.enq = sent.enq,
                 !.status = IF sent.ends = "raised" THEN "raised"
                            ELSE IF op \in {"ServerSave", "PeerSave"} THEN "saved"
                            ELSE "deleted"] @@
  [ups |-> ups, row |-> row, receivers_run |-> sent.ran]

\* WireGuardServer.save of an existing row.
ServerUpdateChan ==
  /\ nops < MaxOps
  /\ \E id \in StoredServers, act \in BOOLEAN, ups \in ChannelStates,
        kg \in {"none", "ok", "fail", "encfail"} :
       LET rowIn == [servers[id] EXCEPT !.is_active = act]
           row == SavedRow(rowIn, kg, GenPrivate(nkeys + 1))
           sent == ServerSaveSend(id, ups)
       IN /\ ups[2]    \* one delay() call only: the second state is not met
          /\ (kg = "none") <=> ~NeedsKeys(rowIn)
          /\ servers' = [servers EXCEPT ![id] = row]
          /\ nkeys' = IF kg \in {"ok", "encfail"} THEN nkeys + 1 ELSE nkeys
          /\ queue' = queue \o sent.enq
          /\ cache_default' = NoCache
          /\ cache_config' = SaveInvalidates(cache_config, id)
          /\ last' = ChanLast("ServerSave", id, FALSE, rowIn.public_key, row, ups, sent)
  /\ nops' = nops + 1
  /\ UNCHANGED <<peers, live, conf, invoked, workers>>

\* WireGuardPeer.save, of a new row or of an existing one whose keys may have
\* been blanked.
PeerSaveChan(id, row, created) ==
  \E ups \in ChannelStates :
    LET sent == PeerSaveSend(id, row, created, ups)
    IN /\ peers' = [peers EXCEPT ![id] = [row EXCEPT !.st = "stored"]]
       /\ queue' = queue \o sent.enq
       /\ last' = ChanLast("PeerSave", id, created, row.public_key,
                           [row EXCEPT !.st = "stored"], ups, sent)
       /\ nops' = nops + 1
       /\ UNCHANGED <<servers, live, conf, cache_default, cache_config, nkeys, invoked, workers>>

PeerCreateChan ==
  /\ nops < MaxOps
  /\ NewPeerId \in PeerIds
  /\ \E act \in BOOLEAN, s \in {0} \cup StoredServers :
       PeerSaveChan(NewPeerId, [NoPeer EXCEPT !.is_active = act, !.server = s], TRUE)

PeerUpdateChan ==
  /\ nops < MaxOps
  /\ \E id \in StoredPeers, act \in BOOLEAN, blank \in BOOLEAN :
       PeerSaveChan(id,
                    [peers[id] EXCEPT !.is_active = act,
                                      !.public_key = IF blank THEN "" ELSE @],
                    FALSE)

\* WireGuardPeer.delete.
PeerDeleteChan ==
  /\ nops < MaxOps
  /\ \E id \in StoredPeers, ups \in ChannelStates :
       LET sent == PeerDeleteSend(id, ups)
           row == [peers[id] EXCEPT !.st = "deleted"]
       IN /\ ups[2]    \* one delay() call only: the second state is not met
          /\ peers' = [peers EXCEPT ![id] = row]
          /\ queue' = queue \o sent.enq
          /\ last' = ChanLast("PeerDelete", id, FALSE, row.public_key, row, ups, sent)
  /\ nops' = nops + 1
  /\ UNCHANGED <<servers, live, conf, cache_default, cache_config, nkeys, invoked, workers>>

\* Servers and Peers are written while the task channel comes and goes.
NextChan ==
  \/ ServerUpdateChan
  \/ PeerCreateChan
  \/ PeerUpdateChan
  \/ PeerDeleteChan

SpecChan == InitSteady /\ [][NextChan]_vars

\* ------------------------------------------------- lookups between Server writes
\* WireGuardServer.get_default called between writes, as one step: what it
\* returns is what the cache holds afterwards (nothing when no Server is active).
LookupDefault ==
  /\ cache_default' = GetDefault(cache_default, servers)
  /\ last' = [NoLast EXCEPT !.op = "get_default",
                            !.id = GetDefault(cache_default, servers).id]
  /\ UNCHANGED <<servers, peers, queue, live, conf, cache_config, nkeys, nops,
                 invoked, workers>>

\* WireGuardServerService.get_server_config(id): the stored row's to_dict,
\* which returns the server-config entry if there is one and caches the row's
\* fields otherwise.
ToDict ==
  /\ \E id \in StoredServers :
       /\ cache_config' = IF cache_config[id].st # "absent" THEN cache_config
                          ELSE [cache_config EXCEPT ![id] = servers[id]]
       /\ last' = [NoLast EXCEPT !.op = "to_dict", !.id = id]
  /\ UNCHANGED <<servers, peers, queue, live, conf, cache_default, nkeys, nops,
                 invoked, workers>>

\* Servers are created, updated and deleted (a Peer can be deleted first, so
\* that its Server can be), with lookups of the default Server and of the
\* Servers' configuration in between; no task runs.
NextLookups ==
  \/ ServerCreate
  \/ ServerUpdate
  \/ ServerDelete
  \/ PeerDelete
  \/ LookupDefault
  \/ ToDict

SpecLookups == InitSteady /\ [][NextLookups]_vars

\* --------------------------------------------------- Inject-Peer on every Peer
\* The converged installation of InitSteady with a second Peer that is stored
\* without keys (its onboarding has failed for good) and has been saved again:
\* the Inject-Peer of that save is queued.
InitInject ==
  /\ servers = [i \in ServerIds |->
       IF i = 1 THEN [st |-> "stored", is_active |-> TRUE,
                      public_key |-> PubOf(GenPrivate(1)),
                      private_key_encrypted |-> Encrypt(GenPrivate(1)),
                      interface |-> "wg0"]
       ELSE NoServer]
  /\ peers = [i \in PeerIds |->
       IF i = 1 THEN [st |-> "stored", server |-> 1,
                      public_key |-> PubOf(GenPrivate(2)),
                      private_key_encrypted |-> Encrypt(GenPrivate(2)),
                      is_active |-> TRUE]
       ELSE IF i = 2 THEN [NoPeer EXCEPT !.st = "stored", !.is_active = TRUE]
       ELSE NoPeer]
  /\ queue = <<Task("inject", 2)>>
  /\ live = [i \in Ifaces |-> IF i = "wg0" THEN {PubOf(GenPrivate(2))} ELSE {}]
  /\ conf = [i \in Ifaces |->
       IF i = "wg0" THEN RenderConf(1, GenPrivate(1), peers) ELSE NoConf]
  /\ cache_default = NoCache
  /\ cache_config = [i \in ServerIds |-> NoServer]
  /\ nkeys = 2
  /\ nops = 1
  /\ invoked = [k \in {"onboard", "sync", "inject"} |-> [i \in ServerIds \cup PeerIds |-> 0]]
  /\ workers = [w \in Workers |-> Idle]
  /\ last = NoLast

\* Peers and the Server are saved again; one worker drains the queue and
\* counts the executions.
NextInject ==
  \/ PeerUpdate
  \/ ServerUpdate
  \/ RunCounted

SpecInject == InitInject /\ [][NextInject]_vars

\* --------------------------------------------------------- generate_wg_config
\* The attributes a WireGuardPeer instance has (its model fields, those that
\* matter here): there is no persistent_keepalive, which is a Server field.
PeerAttributes == {"name", "platform", "public_key", "allowed_ip", "is_active"}

\* The attributes Command.generate_config reads of each peer, in order.
PeerBlockReads == <<"name", "platform", "public_key", "allowed_ip", "persistent_keepalive">>

\* Command.generate_config(server): the [Interface] section, then for each
\* active Peer of the Server (server.peers.filter(is_active=True), in the
\* Peer ordering) a [Peer] block; reading an attribute the Peer does not have
\* raises AttributeError, a private key that does not decrypt CommandError.
GenerateConfig(sid, srv, prs) ==
  LET row == srv[sid]
      active == SortedPeers({[peer |-> i, public_key |-> prs[i].public_key] :
                               i \in ActivePeersOf(sid, prs)})
      readable == \A k \in DOMAIN PeerBlockReads : PeerBlockReads[k] \in PeerAttributes
  IN IF ~CanDecrypt(row.private_key_encrypted)
     THEN [ends |-> "CommandError", text |-> <<>>]
     ELSE IF active # <<>> /\ ~readable
     THEN [ends |-> "AttributeError", text |-> <<>>]
     ELSE [ends |-> "returned",
           text |-> <<[section |-> "Interface", server |-> sid,
                       private_key |-> Decrypt(row.private_key_encrypted)]>>
                    \o active]

\* Command.handle: the first active Server, the interface check, the
\* configuration generated and (unless --dry-run) written to the file.
GenerateWgConfig ==
  /\ \E ifc \in Ifaces, dry \in BOOLEAN :
       LET sid == DefaultQuery(servers)
           out == IF sid = 0 \/ servers[sid].interface # ifc
                  THEN [ends |-> "CommandError", text |-> <<>>]
                  ELSE GenerateConfig(sid, servers, peers)
       IN /\ conf' = IF out.ends = "returned" /\ ~dry
                     THEN [conf EXCEPT ![ifc] =
                             RenderConf(sid, out.text[1].private_key, peers)]
                     ELSE conf
          /\ last' = [NoLast EXCEPT !.op = "generate_config", !.id = sid,
                                    !.status = out.ends] @@
                     [text |-> out.text, generated |-> sid # 0 /\ servers[sid].interface = ifc]
  /\ UNCHANGED <<servers, peers, queue, live, cache_default, cache_config, nkeys,
                 nops, invoked, workers>>

\* Peers and Servers are saved and the management command is run in between.
NextGenerate ==
  \/ ServerUpdate
  \/ PeerUpdate
  \/ GenerateWgConfig

SpecGenerate == InitSteady /\ [][NextGenerate]_vars

\* ------------------------------------------------------------- generate_keys
\* How a subprocess.run(..., timeout=timeout, check=True) of the wg binary
\* ends: it returns, or raises TimeoutExpired, FileNotFoundError,
\* CalledProcessError or something else (OSError).
RunOutcomes == {"ok", "TimeoutExpired", "FileNotFoundError", "CalledProcessError", "OSError"}

\* Mutant: an empty key is not checked for.
KeyEmptyNever(stdout) == FALSE

\* "key = proc.stdout.strip(); if not key: raise RuntimeError(...)"
KeyEmpty(stdout) == Strip(stdout) = ""

\* Every exception of the try block is re-raised as RuntimeError; a step that
\* returned a non-empty key lets the call go on.
StepFails(out, stdout) == out # "ok" \/ KeyEmpty(stdout)

\* A generate_keys call that has ended in process w.
Ended(w, genkey, pubkey, runs, result, private, public) ==
  [workers EXCEPT ![w] =
     [st |-> "ended", genkey |-> genkey, pubkey |-> pubkey, pubkey_runs |-> runs,
      result |-> result, private |-> private, public |-> public]]

\* generate_keys in process w, up to the end of the private-key step: wg
\* genkey is run once; the call ends with RuntimeError or goes on with the key.
GenerateKeysGenkey(w) ==
  /\ workers[w].st \in {"idle", "ended"}
  /\ nkeys < MaxOps
  /\ \E out \in RunOutcomes, stdout \in {GenPrivate(nkeys + 1), "", " "} :
       IF StepFails(out, stdout)
       THEN /\ workers' = Ended(w, IF out = "ok" THEN "empty" ELSE out, "not run", 0,
                                "RuntimeError", "", "")
            /\ UNCHANGED nkeys
       ELSE /\ workers' = [workers EXCEPT ![w] =
                           [st |-> "pubkey", private |-> Strip(stdout)]]
            /\ nkeys' = nkeys + 1
  /\ last' = [NoLast EXCEPT !.op = "genkey", !.id = w]
  /\ UNCHANGED <<servers, peers, queue, live, conf, cache_default, cache_config,
                 nops, invoked>>

\* The rest of the call: wg pubkey is run once on the private key; the call
\* returns the pair or ends with RuntimeError.
GenerateKeysPubkey(w) ==
  /\ workers[w].st = "pubkey"
  /\ \E out \in RunOutcomes, stdout \in {PubOf(workers[w].private), "", " "} :
       workers' =
         IF StepFails(out, stdout)
         THEN Ended(w, "ok", IF out = "ok" THEN "empty" ELSE out, 1,
                    "RuntimeError", "", "")
         ELSE Ended(w, "ok", "ok", 1, "returned", workers[w].private, Strip(stdout))
  /\ last' = [NoLast EXCEPT !.op = "pubkey", !.id = w]
  /\ UNCHANGED <<servers, peers, queue, live, conf, cache_default, cache_config,
                 nkeys, nops, invoked>>

\* The processes of the pool call generate_keys, again and again.
NextKeys ==
  \/ \E w \in Workers : GenerateKeysGenkey(w)
  \/ \E w \in Workers : GenerateKeysPubkey(w)

SpecKeys == Init /\ [][NextKeys]_vars

\* ------------------------------------------------------ a Peer's effective reads
\* The getters of WireGuardPeer and the Peer field each one reads first.
PeerGetters == {"get_endpoint", "get_dns", "get_allowed_ips"}

\* The values a Peer's own field can hold: blank, or something set for the Peer.
Overrides == {"", "peer-value"}

\* The Server's field a getter returns when the Peer's own field is blank.
ServerValue(getter, sid) == "server-" \o ToString(sid) \o "-value"

\* The literal a getter returns when the Peer's own field is blank and
\* get_server() gives no Server.
Literal(getter) ==
  CASE getter = "get_endpoint" -> "vpn.example.com:51820"
    [] getter = "get_dns" -> "8.8.8.8,8.8.4.4"
    [] getter = "get_allowed_ips" -> "0.0.0.0/0"

\* get_endpoint / get_dns / get_allowed_ips: "if self.<field>: return it;
\* server = self.get_server(); return server.<field> if server else <literal>".
PeerGet(getter, override, srv) ==
  IF override # "" THEN override
  ELSE IF srv.id # 0 THEN ServerValue(getter, srv.id)
  ELSE Literal(getter)

\* One getter is called on a stored Peer; get_server() is only called (and the
\* default Server only cached) when the Peer's own field is blank.
PeerRead ==
  /\ \E id \in StoredPeers, getter \in PeerGetters, override \in Overrides :
       LET p == peers[id]
           srv == GetServer(p, cache_default, servers)
       IN /\ cache_default' = IF override = "" THEN CacheAfterGetServer(p, cache_default, servers)
                              ELSE cache_default
          /\ last' = [NoLast EXCEPT !.op = getter, !.id = id, !.status = "returned"] @@
                     [override |-> override, server |-> srv.id,
                      value |-> PeerGet(getter, override, srv)]
  /\ UNCHANGED <<servers, peers, queue, live, conf, cache_config, nkeys, nops,
                 invoked, workers>>

\* Peers and Servers are saved, and the Peers' effective values read in between.
NextReads ==
  \/ ServerUpdate
  \/ PeerUpdate
  \/ PeerRead

SpecReads == InitSteady /\ [][NextReads]_vars

\* ----------------------------------------------------- private-key storage
\* set_private_key(k) on a Server or Peer instance held by process w:
\* private_key_encrypted = CryptoService.encrypt(k).
SetPrivateKey(w) ==
  /\ workers[w].st = "idle"
  /\ \E kind \in {"server", "peer"}, k \in PrivKeys :
       /\ workers' = [workers EXCEPT ![w] =
            [st |-> "keyed", kind |-> kind, key |-> k,
             private_key_encrypted |-> Encrypt(k)]]
       /\ last' = [NoLast EXCEPT !.op = "set_private_key", !.id = w]
  /\ UNCHANGED <<servers, peers, queue, live, conf, cache_default, cache_config,
                 nkeys, nops, invoked>>

\* get_private_key() on that instance: CryptoService.decrypt of the field,
\* which raises (InvalidToken) on anything encrypt did not produce.
GetPrivateKey(w) ==
  /\ workers[w].st = "keyed"
  /\ LET c == workers[w].private_key_encrypted
     IN last' = [NoLast EXCEPT !.op = "get_private_key", !.id = w,
                   !.status = IF CanDecrypt(c) THEN "returned" ELSE "raised"] @@
                [kind |-> workers[w].kind, key |-> workers[w].key,
                 value |-> IF CanDecrypt(c) THEN Decrypt(c) ELSE ""]
  /\ workers' = [workers EXCEPT ![w] = Idle]
  /\ UNCHANGED <<servers, peers, queue, live, conf, cache_default, cache_config,
                 nkeys, nops, invoked>>

\* The processes set a private key on an instance and read it back.
NextCrypto ==
  \/ \E w \in Workers : SetPrivateKey(w)
  \/ \E w \in Workers : GetPrivateKey(w)

SpecCrypto == Init /\ [][NextCrypto]_vars

\* ------------------------------------------- tasks of every kind, with faults
\* The installation of InitInject (a keyed Peer in the live table, a Peer
\* without keys whose Inject-Peer is queued) with one save still to come.
InitTasks ==
  /\ servers = [i \in ServerIds |->
       IF i = 1 THEN [st |-> "stored", is_active |-> TRUE,
                      public_key |-> PubOf(GenPrivate(1)),
                      private_key_encrypted |-> Encrypt(GenPrivate(1)),
                      interface |-> "wg0"]
       ELSE NoServer]
  /\ peers = [i \in PeerIds |->
       IF i = 1 THEN [st |-> "stored", server |-> 1,
                      public_key |-> PubOf(GenPrivate(2)),
                      private_key_encrypted |-> Encrypt(GenPrivate(2)),
                      is_active |-> TRUE]
       ELSE IF i = 2 THEN [NoPeer EXCEPT !.st = "stored", !.is_active = TRUE]
       ELSE NoPeer]
  /\ queue = <<Task("inject", 2)>>
  /\ live = [i \in Ifaces |-> IF i = "wg0" THEN {PubOf(GenPrivate(2))} ELSE {}]
  /\ conf = [i \in Ifaces |->
       IF i = "wg0" THEN RenderConf(1, GenPrivate(1), peers) ELSE NoConf]
  /\ cache_default = NoCache
  /\ cache_config = [i \in ServerIds |-> NoServer]
  /\ nkeys = 2
  /\ nops = MaxOps - 1
  /\ invoked = [k \in {"onboard", "sync", "inject"} |-> [i \in ServerIds \cup PeerIds |-> 0]]
  /\ workers = [w \in Workers |-> Idle]
  /\ last = NoLast

\* A Peer or the Server is saved once more; one worker drains the queue, and
\* any execution may meet a fault.
NextTasks ==
  \/ PeerUpdate
  \/ ServerUpdate
  \/ ExecOnboard
  \/ ExecSync
  \/ ExecInject

SpecTasks == InitTasks /\ [][NextTasks]_vars

\* ------------------------------------------------------------ setup_wg_server
\* interactive_setup with no active Server (programmatic_setup when
\* update_or_create creates), up to the end of objects.create: the command
\* generates the pair of kc, then creates the Server with the public key only;
\* that save finds the private key missing and generates a pair of its own.
\* The process goes on with the instance create returned.
SetupCreate(w) ==
  /\ nops < MaxOps
  /\ workers[w].st = "idle"
  /\ DefaultQuery(servers) = 0
  /\ NewServerId \in ServerIds
  /\ \E kg \in {"ok", "fail", "encfail"} :
       LET id == NewServerId
           kc == GenPrivate(nkeys + 1)
           rowIn == [NoServer EXCEPT !.is_active = TRUE, !.public_key = PubOf(kc)]
           row == [SavedRow(rowIn, kg, GenPrivate(nkeys + 2)) EXCEPT !.st = "stored"]
       IN /\ servers' = [servers EXCEPT ![id] = row]
          /\ nkeys' = IF kg \in {"ok", "encfail"} THEN nkeys + 2 ELSE nkeys + 1
          /\ queue' = queue \o ServerSaveSignals(id)
          /\ cache_default' = NoCache
          /\ cache_config' = SaveInvalidates(cache_config, id)
          /\ workers' = [workers EXCEPT ![w] =
               [st |-> "setup", server |-> id, private_key |-> kc, instance |-> row]]
          /\ last' = [NoLast EXCEPT !.op = "ServerSave", !.id = id, !.created = TRUE,
                                    !.keygen = kg, !.pre_pub = rowIn.public_key,
                                    !.enq = ServerSaveSignals(id), !.status = "saved"]
  /\ nops' = nops + 1
  /\ UNCHANGED <<peers, live, conf, invoked>>

\* The rest of the command: server.set_private_key(private_key); server.save()
\* on the instance (every field of the row is written from it).
SetupSetKey(w) ==
  /\ workers[w].st = "setup"
  /\ \E kg \in {"none", "ok", "fail", "encfail"} :
       LET id == workers[w].server
           rowIn == [workers[w].instance EXCEPT
                       !.private_key_encrypted = Encrypt(workers[w].private_key)]
           row == SavedRow(rowIn, kg, GenPrivate(nkeys + 1))
       IN /\ (kg = "none") <=> ~NeedsKeys(rowIn)
          /\ servers' = [servers EXCEPT ![id] = row]
          /\ nkeys' = IF kg \in {"ok", "encfail"} THEN nkeys + 1 ELSE nkeys
          /\ queue' = queue \o ServerSaveSignals(id)
          /\ cache_default' = NoCache
          /\ cache_config' = SaveInvalidates(cache_config, id)
          /\ last' = [NoLast EXCEPT !.op = "ServerSave", !.id = id, !.keygen = kg,
                                    !.pre_pub = rowIn.public_key,
                                    !.pre_priv = rowIn.private_key_encrypted,
                                    !.enq = ServerSaveSignals(id), !.status = "saved"] @@
                     [setup |-> "done"]
  /\ workers' = [workers EXCEPT ![w] = Idle]
  /\ UNCHANGED <<peers, live, conf, nops, invoked>>

\* interactive_setup on the active Server it found (the user confirms the
\* update): the pair of kc is assigned to both fields, then one save.
SetupUpdate(w) ==
  /\ nops < MaxOps
  /\ workers[w].st = "idle"
  /\ DefaultQuery(servers) # 0
  /\ LET id == DefaultQuery(servers)
         kc == GenPrivate(nkeys + 1)
         row == [servers[id] EXCEPT !.public_key = PubOf(kc),
                                    !.private_key_encrypted = Encrypt(kc)]
     IN /\ servers' = [servers EXCEPT ![id] = row]
        /\ queue' = queue \o ServerSaveSignals(id)
        /\ cache_config' = SaveInvalidates(cache_config, id)
        /\ last' = [NoLast EXCEPT !.op = "ServerSave", !.id = id,
                                  !.pre_pub = row.public_key,
                                  !.pre_priv = row.private_key_encrypted,
                                  !.enq = ServerSaveSignals(id), !.status = "saved"]
  /\ nkeys' = nkeys + 1
  /\ cache_default' = NoCache
  /\ nops' = nops + 1
  /\ UNCHANGED <<peers, live, conf, invoked, workers>>

\* The setup command is run, by one administrator or by two at once, and
\* Servers are saved from the admin in between.
NextSetup ==
  \/ \E w \in Workers : SetupCreate(w)
  \/ \E w \in Workers : SetupSetKey(w)
  \/ \E w \in Workers : SetupUpdate(w)
  \/ ServerUpdate

SpecSetup == Init /\ [][NextSetup]_vars

\* The tasks of every kind with their faults (InitTasks, NextTasks) under the
\* worker's scheduling: a task at the head of the queue is eventually taken
\* and run to its end, with or without a fault.
SpecTasksFair ==
  /\ InitTasks
  /\ [][NextTasks]_vars
  /\ WF_vars(ExecOnboard)
  /\ WF_vars(ExecSync)
  /\ WF_vars(ExecInject)

\* ------------------------------------------- Onboard failing after an enqueue
\* Where an onboard_peer attempt can fail: in onboard() before anything is
\* written, or in one of the two delay() calls that follow.
FollowUpFaults == {"none", "error", "sync_delay", "inject_delay"}

\* The follow-ups that reach the queue before the attempt fails: delay() is
\* called for Sync-Config, then for Inject-Peer, inside the try block.
FollowUpsBefore(sid, pid, fault) ==
  IF sid = 0 \/ fault = "sync_delay" THEN <<>>
  ELSE IF fault = "inject_delay" THEN <<Task("sync", sid)>>
  ELSE OnboardFollowUps(sid, pid)

\* One attempt of onboard_peer, counted: onboard() writes the key back if the
\* Peer has none, the follow-ups are enqueued, and an exception raised at any
\* point after onboard() is caught by "except Exception" and retried.
OnboardAttempt ==
  /\ queue # <<>>
  /\ Head(queue).kind = "onboard"
  /\ \E fault \in FollowUpFaults :
       LET t == Head(queue)
           p == peers[t.id]
           exc == IF fault = "error" THEN "OnboardError"
                  ELSE IF p.st # "stored" THEN "DoesNotExist"
                  ELSE IF fault \in {"sync_delay", "inject_delay"} THEN "OperationalError"
                  ELSE "none"
           how == Handler("onboard", exc)
           wrote == fault # "error" /\ p.st = "stored"
           gen == wrote /\ OnboardGenerates(p)
           row == IF gen THEN OnboardedRow(p, GenPrivate(nkeys + 1)) ELSE p
           sig == IF gen THEN PeerSaveSignals(t.id, row, FALSE) ELSE <<>>
           srv == GetServer(row, cache_default, servers)
           follow == IF wrote THEN FollowUpsBefore(srv.id, t.id, fault) ELSE <<>>
           enq == follow \o Requeue(t, how)
       IN /\ (fault \in {"sync_delay", "inject_delay"}) => (wrote /\ srv.id # 0)
          /\ peers' = [peers EXCEPT ![t.id] = row]
          /\ nkeys' = IF gen THEN nkeys + 1 ELSE nkeys
          /\ cache_default' = IF wrote
                              THEN CacheAfterGetServer(row, cache_default, servers)
                              ELSE cache_default
          /\ queue' = Tail(queue) \o sig \o enq
          /\ invoked' = Count("onboard", t.id)
          /\ last' = ExecLast(t, fault, exc, enq, EndStatus(t, how, "success")) @@
                     [signalled |-> sig]
  /\ UNCHANGED <<cache_config, servers, live, conf, nops, workers>>

\* Sync-Config and Inject-Peer run without faults and are counted.
RunFollowUp ==
  /\ queue # <<>>
  /\ invoked' = Count(Head(queue).kind, Head(queue).id)
  /\ \/ SyncWgConfig
     \/ InjectPeerLive

\* A Peer has just been created (InitFail); its Onboard task runs, attempt by
\* attempt, and the tasks it enqueues run; the Peer may be deleted.
NextFollow ==
  \/ OnboardAttempt
  \/ RunFollowUp
  \/ PeerDelete

SpecFollow == InitFail /\ [][NextFollow]_vars

\* ------------------------------------------- permissions of the written file
\* In this part a configuration file is its text (the sections, as above) and
\* its permission bits; "absent" is a file that does not exist.
NoFile == [text |-> <<>>, mode |-> "absent"]

\* The process umask tee runs under (root's, through sudo).
Umasks == {"022", "077"}

\* tee opens the file with O_CREAT and mode 0666: a new file gets 0666 less
\* the umask, an existing file keeps its bits.
ModeAfterOpen(mode, umask) ==
  IF mode # "absent" THEN mode
  ELSE IF umask = "022" THEN "0644" ELSE "0600"

\* "sudo -n tee <config_path>" with the rendered text on its input: rejected
\* by sudo (non-zero exit, PermissionError), or the file is opened and the
\* text, which begins with the private key, written. chmod has not run yet.
SyncTee(w) ==
  /\ workers[w].st = "open"
  /\ \E out \in {"ok", "denied"}, umask \in Umasks :
       LET t == workers[w].task
           how == Handler("sync", "PermissionError")
           enq == Requeue(t, how)
       IN IF out = "denied"
          THEN /\ umask = "022"
               /\ queue' = queue \o enq
               /\ workers' = [workers EXCEPT ![w] = Idle]
               /\ last' = [NoLast EXCEPT !.op = "sync", !.id = t.id, !.enq = enq,
                                         !.status = EndStatus(t, how, "success")]
               /\ UNCHANGED conf
          ELSE /\ conf' = [conf EXCEPT ![workers[w].iface] =
                             [text |-> workers[w].content,
                              mode |-> ModeAfterOpen(@.mode, umask)]]
               /\ workers' = [workers EXCEPT ![w].st = "chmod"]
               /\ last' = [NoLast EXCEPT !.op = "sync-tee", !.id = t.id]
               /\ UNCHANGED queue
  /\ UNCHANGED <<servers, peers, live, cache_default, cache_config, nkeys, nops, invoked>>

\* "sudo -n chmod 600 <config_path>" with check=True: the bits become
\* owner read/write and the task returns success, or the command exits
\* non-zero (sudo rejects it), CalledProcessError is raised and the generic
\* handler retries the task.
SyncChmod(w) ==
  /\ workers[w].st = "chmod"
  /\ \E out \in {"ok", "failed"} :
       LET t == workers[w].task
           exc == IF out = "ok" THEN "none" ELSE "CalledProcessError"
           how == Handler("sync", exc)
           enq == Requeue(t, how)
       IN /\ conf' = IF out = "ok"
                     THEN [conf EXCEPT ![workers[w].iface].mode = "0600"]
                     ELSE conf
          /\ queue' = queue \o enq
          /\ workers' = [workers EXCEPT ![w] = Idle]
          /\ last' = [NoLast EXCEPT !.op = "sync", !.id = t.id, !.enq = enq,
                                    !.status = EndStatus(t, how, "success")]
  /\ UNCHANGED <<servers, peers, live, cache_default, cache_config, nkeys, nops, invoked>>

\* A Server has just been created with its key pair: its Sync-Config is
\* queued and no configuration file exists yet.
InitPerm ==
  /\ servers = [i \in ServerIds |->
       IF i = 1 THEN [st |-> "stored", is_active |-> TRUE,
                      public_key |-> PubOf(GenPrivate(1)),
                      private_key_encrypted |-> Encrypt(GenPrivate(1)),
                      interface |-> "wg0"]
       ELSE NoServer]
  /\ peers = [i \in PeerIds |-> NoPeer]
  /\ queue = ServerSaveSignals(1)
  /\ live = [i \in Ifaces |-> {}]
  /\ conf = [i \in Ifaces |-> NoFile]
  /\ cache_default = NoCache
  /\ cache_config = [i \in ServerIds |-> NoServer]
  /\ nkeys = 1
  /\ nops = 1
  /\ invoked = [k \in {"onboard", "sync", "inject"} |-> [i \in ServerIds \cup PeerIds |-> 0]]
  /\ workers = [w \in Workers |-> Idle]
  /\ last = NoLast

\* The Server is saved again while the workers run its Sync-Config tasks,
\* command by command.
NextPerm ==
  \/ ServerUpdate
  \/ \E w \in Workers : SyncRead(w)
  \/ \E w \in Workers : SyncTee(w)
  \/ \E w \in Workers : SyncChmod(w)

SpecPerm == InitPerm /\ [][NextPerm]_vars

\* ------------------------------------------------------------------ claims
\* The last n entries of the queue.
QueueTail(n) ==
  IF n > Len(queue) THEN <<"short">>
  ELSE [i \in 1..n |-> queue[Len(queue) - n + i]]

\* The server a Peer row resolves to, read from the store (0: none).
ResolvedServer(p) == IF p.server # 0 THEN p.server ELSE DefaultQuery(servers)

C2_DeletedPeerLeavesLive ==
  /\ (last.op = "PeerDelete") => last.enq = <<Task("inject", last.id)>>
  /\ (last.op = "inject" /\ peers[last.id].st = "deleted") =>
       \A i \in Ifaces : peers[last.id].public_key \notin live[i]

C4_CreateEnqueuesOnboardOnly ==
  (last.op = "PeerSave" /\ last.created) =>
    /\ last.enq = <<Task("onboard", last.id)>>
    /\ QueueTail(1) = <<Task("onboard", last.id)>>
    /\ \A i \in 1..Len(queue) : ~(queue[i].kind = "inject" /\ queue[i].id = last.id)

\* A Peer has just been created.
C4_Witness ==
  /\ last.op = "PeerSave"
  /\ last.created
  /\ peers[last.id].st = "stored"
  /\ Len(queue) > 0

\* C5: when Onboard ends in success for a Peer that resolves to a Server, the
\* last two entries of the queue are Sync-Config for that Server and then
\* Inject-Peer for the Peer.
C5_SyncBeforeInject ==
  (last.op = "onboard" /\ last.status = "success"
     /\ ResolvedServer(peers[last.id]) # 0) =>
    QueueTail(2) = <<Task("sync", ResolvedServer(peers[last.id])),
                     Task("inject", last.id)>>

\* Onboard has just succeeded for a Peer that resolves to a Server.
C5_Witness ==
  /\ last.op = "onboard"
  /\ last.status = "success"
  /\ ResolvedServer(peers[last.id]) # 0
  /\ Len(queue) >= 2

\* Nothing is queued and no worker is inside a task.
Quiescent == queue = <<>> /\ \A w \in Workers : workers[w].st = "idle"

UsablePeers == {p \in StoredPeers : ~KeyMissing(peers[p].public_key)}

\* C6 as stated: with an active default Server and no failure, each Peer
\* creation makes Onboard run, the Peer gain a public key, and Sync-Config and
\* Inject-Peer run exactly once each for it: once the queue is empty every
\* Peer was injected once and the Server was synced once per Peer created.
C6_OncePerCreation ==
  Quiescent =>
    /\ \A p \in StoredPeers :
         /\ invoked["onboard"][p] = 1
         /\ ~KeyMissing(peers[p].public_key)
         /\ invoked["inject"][p] = 1
    /\ invoked["sync"][1] = Cardinality(StoredPeers)

\* C7 as stated, counting only the Peers that Inject-Peer would not skip: once
\* every task has run, each stored Peer that is active, has a public key and
\* resolves to an active Server is in the live peer table of that Server's
\* interface.
C7_EventualPresence ==
  Quiescent =>
    \A p \in UsablePeers :
      LET sid == ResolvedServer(peers[p])
      IN (peers[p].is_active /\ sid # 0 /\ servers[sid].is_active) =>
           peers[p].public_key \in live[servers[sid].interface]

\* C8 as stated: once every task has run, no stored Peer that is inactive or
\* has no public key is in a live peer table.
C8_EventualAbsence ==
  Quiescent =>
    \A p \in StoredPeers :
      (~peers[p].is_active \/ KeyMissing(peers[p].public_key)) =>
        \A i \in Ifaces : peers[p].public_key \notin live[i]

\* C9 as stated: with parallel workers, once the Inject-Peer tasks of the
\* updates have all completed, the live peer table holds a Peer's public key
\* exactly when the stored Peer is active (Server 1 stays the active Server
\* of every Peer throughout).
C9_LastWriteWins ==
  Quiescent =>
    \A p \in UsablePeers :
      (peers[p].public_key \in live["wg0"]) <=> peers[p].is_active

\* C10 as stated: with the Server rows as they were, once the tasks of the
\* Peer writes have all completed, the configuration file of a Server holds a
\* [Peer] section for exactly that Server's active Peers.
C10_ConfFollowsPeers ==
  (Quiescent /\ servers[1].st = "stored" /\ conf["wg0"].server = 1
     /\ \A i \in ServerIds \ {1} : servers[i].st = "absent") =>
    conf["wg0"].peers =
      {[peer |-> i, public_key |-> peers[i].public_key] : i \in ActivePeersOf(1, peers)}

\* The last step was an execution of a task (with its record of the faults).
TaskRan == last.op \in {"onboard", "sync", "inject"}

\* The entity the last executed task was addressed to is not in the store.
TargetMissing ==
  IF last.op = "sync" THEN servers[last.id].st # "stored"
  ELSE peers[last.id].st # "stored"

\* The last execution ended without returning: it raised, or scheduled a retry.
EndedInFailure == last.status \in {"raised", "retry", "failed"}

\* How an execution that must be retried ends: a retry while the retry bound
\* is not exhausted, a failed task afterwards.
RetriedOrExhausted ==
  IF last.attempt <= MaxRetries(last.op)
  THEN last.status = "retry" /\ last.enq # <<>>
  ELSE last.status = "failed"

\* C11 as stated: a Sync-Config or Inject-Peer execution that ends by raising
\* or by scheduling a retry leaves every configuration file and every live
\* peer table as they were when it started.
C11_FailureLeavesStateUntouched ==
  (TaskRan /\ last.op \in {"sync", "inject"} /\ EndedInFailure) =>
    /\ conf = last.conf_before
    /\ live = last.live_before

\* C14 as stated: a Sync-Config or Inject-Peer execution in which sudo rejects
\* a command ends by raising and leaves no retry of itself in the queue.
C14_PermissionFailureIsTerminal ==
  (TaskRan /\ last.fault \in {"tee_denied", "chmod_denied", "cmd_denied"}) =>
    /\ last.status = "raised"
    /\ last.enq = <<>>

\* C15 as stated: an Inject-Peer execution whose wg command exits non-zero for
\* a reason other than a rejection by sudo schedules a retry while its retry
\* bound is not exhausted.
C15_CommandFailedIsRetried ==
  (TaskRan /\ last.op = "inject" /\ last.fault = "cmd_failed") =>
    RetriedOrExhausted

\* C16 as stated: a Sync-Config execution that fails for another reason than a
\* rejection by sudo or a missing Server (the file write command fails, the
\* key cannot be decrypted, chmod fails, the database read fails) schedules a
\* retry while its retry bound is not exhausted.
C16_SyncOtherFailuresAreRetried ==
  (TaskRan /\ last.op = "sync"
     /\ (last.exc = "InvalidToken"
           \/ last.fault \in {"db_error", "tee_open", "tee_write", "chmod_failed"})) =>
    RetriedOrExhausted

\* C17: a task executed for an entity that is no longer in the store returns
\* the status "error", leaves the queue as it was less itself (no retry, no
\* further task) and leaves every configuration file and live peer table as
\* they were.
C17_NotFoundIsTerminal ==
  (TaskRan /\ last.fault = "none" /\ TargetMissing) =>
    /\ last.status = "error"
    /\ last.enq = <<>>
    /\ queue = Tail(last.queue_before)
    /\ conf = last.conf_before
    /\ live = last.live_before

\* Sync-Config has just run for a Server that was deleted after the task was
\* enqueued.
C17_Witness ==
  /\ TaskRan
  /\ last.op = "sync"
  /\ last.fault = "none"
  /\ servers[last.id].st = "deleted"
  /\ last.status = "error"

\* C18 as stated: no task is attempted more than three times, and a retry is
\* scheduled with a delay of 5 to 10 time units.
C18_AtMostThreeAttempts ==
  TaskRan =>
    /\ last.attempt <= 3
    /\ (last.status = "retry") => last.countdown \in 5..10

\* C18 amended: a task is attempted at most max_retries + 1 times (Onboard
\* four times, Sync-Config and Inject-Peer three times); a retry is scheduled
\* with the task's fixed delay (10, 10 and 5) and is the task itself with one
\* more retry counted; after the last attempt the task ends as failed and is
\* not queued again.
C18_AttemptsBounded ==
  /\ \A i \in 1..Len(queue) : queue[i].retries <= MaxRetries(queue[i].kind)
  /\ TaskRan =>
       /\ last.attempt <= MaxRetries(last.op) + 1
       /\ (last.status = "retry") =>
            /\ last.countdown = Countdown(last.op)
            /\ last.countdown \in 5..10
            /\ last.enq = <<[kind |-> last.op, id |-> last.id, retries |-> last.attempt]>>
            /\ QueueTail(1) = last.enq
       /\ (last.status = "failed") =>
            /\ last.attempt = MaxRetries(last.op) + 1
            /\ last.enq = <<>>
            /\ queue = Tail(last.queue_before)

\* Onboard has just failed for the fourth time and is given up.
C18_Witness ==
  /\ TaskRan
  /\ last.op = "onboard"
  /\ last.status = "failed"
  /\ last.attempt = 4

\* C12 as stated: while a Sync-Config execution is between opening the file
\* and having written it, a reader of the file finds the complete content the
\* file had before or the complete new content.
C12_WriteIsAtomic ==
  \A w \in Workers :
    workers[w].st = "write" =>
      conf[workers[w].iface] \in {workers[w].before, workers[w].content}

\* C13 as stated: when a Sync-Config execution has written the file, the file
\* is the complete text that execution rendered, or the complete text it held
\* before (the output of a task that wrote later data first), never a mix.
C13_NoInterleavedWrites ==
  (last.op = "sync" /\ last.status = "success") =>
    conf[last.iface] \in {last.content, last.file_before}

\* C19 as stated, for the default-server entry: every Server write being
\* complete with its invalidation, a hit on the entry returns the Server as
\* the store holds it, and that Server is the one the default query selects.
C19_NoStaleHit ==
  cache_default.id # 0 =>
    /\ cache_default.row = servers[cache_default.id]
    /\ cache_default.id = DefaultQuery(servers)

\* C20 as stated: a Server or Peer save or delete during which the cache
\* raises on invalidation returns normally to its caller, the row change
\* applied.
C20_CacheFailureIsSwallowed ==
  (last.op \in {"ServerSave", "ServerDelete", "PeerSave", "PeerDelete"}
     /\ ~last.cache_up) =>
    /\ last.status \in {"saved", "deleted", "rejected"}
    /\ (IF last.op \in {"ServerSave", "ServerDelete"}
        THEN servers[last.id] ELSE peers[last.id]) = last.row

\* The write of the last step met a task channel that was down at one of the
\* delay() calls it made.
EnqueueFailed ==
  /\ last.op \in {"ServerSave", "PeerSave", "PeerDelete"}
  /\ \/ ~last.ups[1] /\ (last.op = "PeerSave" =>
                           NeedsOnboarding(last.created, last.pre_pub))
     \/ ~last.ups[2] /\ last.op = "PeerSave" /\ InjectsOnSave(last.created)

\* C21: a write during which an enqueue fails still returns normally with the
\* row persisted, every receiver of the event has run, and each rule whose own
\* delay() met a working channel has enqueued its task.
C21_EnqueueFailureIsSwallowed ==
  EnqueueFailed =>
    /\ last.status \in {"saved", "deleted"}
    /\ (IF last.op = "ServerSave" THEN servers[last.id] ELSE peers[last.id]) = last.row
    /\ last.receivers_run = (IF last.op = "PeerDelete" THEN 1 ELSE 2)
    /\ (last.op = "PeerSave" /\ NeedsOnboarding(last.created, last.pre_pub)
          /\ last.ups[1]) =>
         \E i \in DOMAIN last.enq : last.enq[i] = Task("onboard", last.id)
    /\ (last.op = "PeerSave" /\ InjectsOnSave(last.created) /\ last.ups[2]) =>
         \E i \in DOMAIN last.enq : last.enq[i] = Task("inject", last.id)
    /\ QueueTail(Len(last.enq)) = last.enq

\* A keyless Peer is saved, the enqueue of Onboard-Peer fails and the
\* injection rule that follows still enqueues Inject-Peer.
C21_Witness ==
  /\ last.op = "PeerSave"
  /\ ~last.created
  /\ KeyMissing(last.pre_pub)
  /\ ~last.ups[1]
  /\ last.ups[2]
  /\ last.status = "saved"
  /\ last.enq = <<Task("inject", last.id)>>

\* C22: when a Server create or update has completed, the default-server entry
\* and the Server's server-config entry are absent from the cache and
\* Sync-Config for that Server is the task the write put on the queue.
C22_SaveInvalidatesAndSyncs ==
  (last.op = "ServerSave" /\ last.status = "saved") =>
    /\ cache_default = NoCache
    /\ cache_config[last.id] = NoServer
    /\ last.enq = <<Task("sync", last.id)>>
    /\ QueueTail(1) = <<Task("sync", last.id)>>

\* A Server that exists is saved again, while another Server's configuration
\* is still cached.
C22_Witness ==
  /\ last.op = "ServerSave"
  /\ ~last.created
  /\ last.status = "saved"
  /\ cache_config[last.id] = NoServer
  /\ \E j \in StoredServers : j # last.id /\ cache_config[j].st = "stored"
  /\ QueueTail(1) = <<Task("sync", last.id)>>

\* C23: a step that deletes a Server leaves the default-server entry and the
\* Server's server-config entry absent from the cache and the queue as it was.
C23_DeleteInvalidatesOnly ==
  [][(last'.op = "ServerDelete" /\ last'.status = "deleted") =>
       /\ cache_default' = NoCache
       /\ cache_config'[last'.id] = NoServer
       /\ queue' = queue]_vars

\* An active Server has been deleted, with a task on the queue from before.
C23_Witness ==
  /\ last.op = "ServerDelete"
  /\ last.status = "deleted"
  /\ servers[last.id].st = "deleted"
  /\ servers[last.id].is_active
  /\ queue # <<>>
  /\ cache_default = NoCache
  /\ cache_config[last.id] = NoServer

\* C24: a step that deletes a Server which a Peer references is rejected, and
\* it leaves the Server rows, the Peer rows and the queue as they were.
C24_ProtectedDeleteChangesNothing ==
  [][(last'.op = "ServerDelete"
        /\ \E p \in StoredPeers : peers[p].server = last'.id) =>
       /\ last'.status = "rejected"
       /\ servers' = servers
       /\ peers' = peers
       /\ queue' = queue]_vars

\* The delete of a Server was rejected: the Server is stored and a stored Peer
\* references it.
C24_Witness ==
  /\ last.op = "ServerDelete"
  /\ last.status = "rejected"
  /\ servers[last.id].st = "stored"
  /\ \E p \in StoredPeers : peers[p].server = last.id

\* C25: an Inject-Peer execution for a stored Peer for which no active Server
\* is resolved, or whose public key is empty or the placeholder, ends with
\* status skipped, leaves the live peer table as it was and is not retried.
C25_SkipIssuesNoCommand ==
  [][(queue # <<>> /\ last'.op = "inject"
        /\ peers[last'.id].st = "stored"
        /\ LET p == peers[last'.id]
               srv == GetServer(p, cache_default, servers)
           IN \/ srv.id = 0
              \/ ~srv.row.is_active
              \/ KeyMissing(p.public_key)) =>
       /\ last'.status = "skipped"
       /\ live' = live
       /\ queue' = Tail(queue)]_vars

\* Inject-Peer has skipped a Peer without a public key whose Server is active.
C25_WitnessNoKey ==
  /\ last.op = "inject"
  /\ last.status = "skipped"
  /\ KeyMissing(peers[last.id].public_key)
  /\ ResolvedServer(peers[last.id]) # 0

\* C26: an Inject-Peer execution for an inactive Peer with a public key whose
\* Server is active returns success and leaves the key out of the live peer
\* table; when it follows a successful execution for the same Peer, it leaves
\* the table as that execution left it.
C26_RemovalIsIdempotent ==
  [][(queue # <<>> /\ last'.op = "inject"
        /\ peers[last'.id].st = "stored"
        /\ ~peers[last'.id].is_active
        /\ ~KeyMissing(peers[last'.id].public_key)
        /\ GetServer(peers[last'.id], cache_default, servers).id # 0
        /\ GetServer(peers[last'.id], cache_default, servers).row.is_active) =>
       LET p == peers[last'.id]
           srv == GetServer(p, cache_default, servers)
       IN /\ last'.status = "success"
          /\ p.public_key \notin live'[srv.row.interface]
          /\ (last.op = "inject" /\ last.id = last'.id /\ last.status = "success") =>
               live' = live]_vars

\* Inject-Peer has run twice for an inactive Peer with a key, the second time
\* with success, and the key is not in the live peer table.
C26_Witness ==
  /\ last.op = "inject"
  /\ last.status = "success"
  /\ invoked["inject"][last.id] >= 2
  /\ peers[last.id].st = "stored"
  /\ ~peers[last.id].is_active
  /\ ~KeyMissing(peers[last.id].public_key)
  /\ \A i \in Ifaces : peers[last.id].public_key \notin live[i]

\* C29 as stated: generate_config, called for a Server, returns a text that
\* is one [Interface] section followed by exactly one [Peer] block per active
\* Peer of the Server, in the order of the peer list.
C29_OneBlockPerPeer ==
  (last.op = "generate_config" /\ last.generated
     /\ CanDecrypt(servers[last.id].private_key_encrypted)) =>
    /\ last.status = "returned"
    /\ Len(last.text) = 1 + Cardinality(ActivePeersOf(last.id, peers))
    /\ last.text[1].section = "Interface"
    /\ \A i \in ActivePeersOf(last.id, peers) :
         Cardinality({k \in 2..Len(last.text) : last.text[k].peer = i}) = 1
    /\ \A j, k \in 2..Len(last.text) :
         j < k => last.text[j].peer > last.text[k].peer

\* C30: a generate_keys call returns a pair only when both host steps returned
\* a non-empty key, and then neither element is empty; otherwise it ends with
\* an error. The public-key step runs at most once, and only on a non-empty
\* private key; the private-key step runs once per call (the step that starts
\* the call).
C30_NoEmptyKeyReturned ==
  \A w \in Workers :
    /\ workers[w].st = "pubkey" => workers[w].private # ""
    /\ workers[w].st = "ended" =>
         /\ workers[w].result \in {"returned", "RuntimeError"}
         /\ workers[w].result = "returned" <=>
              (workers[w].genkey = "ok" /\ workers[w].pubkey = "ok")
         /\ workers[w].result = "returned" =>
              /\ workers[w].private # ""
              /\ workers[w].public # ""
              /\ workers[w].public = PubOf(workers[w].private)
         /\ workers[w].pubkey_runs <= 1
         /\ workers[w].pubkey_runs = 1 <=> workers[w].genkey = "ok"

\* One call has returned a pair and another has failed on an empty public key.
C30_Witness ==
  \E v, w \in Workers :
    /\ workers[v].st = "ended" /\ workers[v].result = "returned"
    /\ workers[w].st = "ended" /\ workers[w].result = "RuntimeError"
    /\ workers[w].pubkey = "empty"

\* C27 as stated: a getter called on a Peer without a Server reference
\* resolves the current default active Server; when there is none it returns
\* the Peer's own field if that is not blank and an empty value otherwise.
C27_FallbackIsOverrideOrEmpty ==
  (last.op \in PeerGetters /\ peers[last.id].server = 0) =>
    /\ last.status = "returned"
    /\ last.server = DefaultQuery(servers)
    /\ last.server = 0 =>
         last.value = (IF last.override # "" THEN last.override ELSE "")

\* C28: between Server writes, what the default-server lookup returns (from
\* the cache or from the store) is the most recently created Server that is
\* stored and active, with the fields the store holds, or nothing when no
\* Server is active.
C28_DefaultIsNewestActive ==
  LET act == {i \in ServerIds : servers[i].st = "stored" /\ servers[i].is_active}
      d == GetDefault(cache_default, servers)
  IN /\ act = {} => d.id = 0
     /\ act # {} => /\ d.id \in act
                    /\ \A j \in act : j <= d.id
                    /\ d.row = servers[d.id]
     /\ last.op = "get_default" => last.id = d.id

\* A lookup has returned the newer of two active Servers.
C28_Witness ==
  /\ last.op = "get_default"
  /\ last.id = 2
  /\ cache_default.id = 2
  /\ servers[1].st = "stored"
  /\ servers[1].is_active

C32_TasksLeaveRowsAlone ==
  [][(last'.op \in {"sync", "inject"}) =>
       (servers' = servers /\ peers' = peers)]_vars

\* An Inject-Peer execution has been skipped while a retry of an earlier
\* execution is still queued.
C32_Witness ==
  /\ last.op = "inject"
  /\ last.status = "skipped"
  /\ \E i \in DOMAIN queue : queue[i].retries > 0

\* C33 as stated: every stored Server whose two key fields are not missing or
\* placeholders holds the public key derived from its stored private key.
C33_KeyPairConsistent ==
  \A i \in StoredServers :
    (~KeyMissing(servers[i].public_key)
       /\ ~KeyMissing(servers[i].private_key_encrypted)) =>
      /\ CanDecrypt(servers[i].private_key_encrypted)
      /\ servers[i].public_key = PubOf(Decrypt(servers[i].private_key_encrypted))

\* C34: the writes being finitely many, the queue eventually becomes empty
\* and stays empty, whatever the tasks enqueue themselves and however often
\* they fail.
C34_Quiesces == <>[](queue = <<>>)

\* The queue has been emptied by an execution that was itself a retry, all
\* writes done.
C34_Witness ==
  /\ queue = <<>>
  /\ nops = MaxOps
  /\ TaskRan
  /\ last.attempt > 1

\* The tasks of a kind for an entity that have been executed or are queued.
Enqueued(kind, id) ==
  invoked[kind][id]
    + Cardinality({i \in DOMAIN queue : queue[i].kind = kind /\ queue[i].id = id})

\* C38 as stated: over all the attempts of the Onboard task of Peer 1, the
\* follow-up Sync-Config of its Server has been enqueued at most once, and
\* Inject-Peer at most once besides the one the key write-back's save
\* enqueues (and the one of a deletion).
C38_FollowUpsOnce ==
  /\ Enqueued("sync", 1) <= 1
  /\ Enqueued("inject", 1) <= 2 + (IF peers[1].st = "deleted" THEN 1 ELSE 0)


\* C37: a Server save whose row carries both keys (neither empty nor "-")
\* does not enter key generation and stores both key fields as they were;
\* a save enters key generation exactly when a key field is empty or "-".
C37_KeysGeneratedOnlyWhenMissing ==
  (last.op = "ServerSave") =>
    LET present == /\ last.pre_pub \notin {"", "-"}
                   /\ last.pre_priv \notin {"", "-"}
    IN /\ (last.keygen = "none") <=> present
       /\ present => /\ servers[last.id].public_key = last.pre_pub
                     /\ servers[last.id].private_key_encrypted = last.pre_priv

\* A Server that has both keys was saved again: no generation, keys kept.
C37_Witness ==
  /\ last.op = "ServerSave"
  /\ ~last.created
  /\ last.keygen = "none"
  /\ CanDecrypt(servers[last.id].private_key_encrypted)
  /\ servers[last.id].public_key = last.pre_pub


\* C35: an execution of Sync-Config for a stored Server whose private key
\* field is empty or "-" ends as a failure (retried or given up) and leaves
\* every configuration file as it was: the key is decrypted before anything
\* is written.
C35_NoWriteWithoutKey ==
  [][(/\ last'.op = "sync"
      /\ servers[last'.id].st = "stored"
      /\ servers[last'.id].private_key_encrypted \in {"", "-"})
     => (conf' = conf /\ last'.status \in {"retry", "failed"})]_vars

\* Sync-Config has given up on a Server saved with the "-" placeholder, and
\* no configuration file names that Server.
C35_Witness ==
  /\ last.op = "sync"
  /\ last.status = "failed"
  /\ servers[last.id].st = "stored"
  /\ servers[last.id].private_key_encrypted = "-"
  /\ \A i \in Ifaces : conf[i].server # last.id


\* The text of a file holds a Server private key.
HoldsPrivateKey(f) ==
  \E i \in DOMAIN f.text : f.text[i].section = "Interface"

\* C36 as stated: in every state, during and after Sync-Config, a
\* configuration file that holds the private key has owner-only read/write
\* permission bits.
C36_OwnerOnlyAlways ==
  \A i \in Ifaces : HoldsPrivateKey(conf[i]) => conf[i].mode = "0600"

====
